---- MODULE Spec2Model ----
(***************************************************************************)
(* Model of the cleanup-profiles batch job: the merge flow                 *)
(* (cleanupProfiles) and the email flow (cleanupEmails), each with its     *)
(* goroutine-per-unit pool, the shared tally mutex, the API token and the  *)
(* store statements.  Go slices are 0-based; the sequences here are        *)
(* 1-based, so unit i of the model is index i-1 of the program.            *)
(***************************************************************************)
EXTENDS Integers, Sequences, FiniteSets, TLC

\* nil pointer, SQL NULL, nil error, nil channel, nil mutex
Nil == "<nil>"

\* Bounds of the model
MaxRows == 3
MaxCPU == 3

\* Values of the identities columns
MissingName == "x-MISSING-NAME"
Uuids == {"U1", "U2"}

\* The rows an identities table is drawn from: candidates (missing-name
\* suffix) and targets (null name) over the keys gh:alice and gh:bob.
IdentityRows ==
  { r \in [source : {"gh"}, name : {Nil, MissingName}, uuid : Uuids \cup {Nil},
           username : {"alice", "bob"}, email : {Nil}] :
      r.username = "bob" => (r.name = MissingName /\ r.uuid = "U2") }

\* The primary key of row k of the table
IdOf(k) == "id" \o ToString(k)

\* The id column of a table: the first identity of a unique identity carries
\* the uuid as its id, every other row has an id of its own
WithIds(tab) ==
  [k \in DOMAIN tab |->
     [source |-> tab[k].source, name |-> tab[k].name, uuid |-> tab[k].uuid,
      username |-> tab[k].username, email |-> tab[k].email,
      id |-> IF tab[k].uuid # Nil /\ \A j \in 1 .. k - 1 : tab[j].uuid # tab[k].uuid
             THEN tab[k].uuid
             ELSE IdOf(k)]]

\* Values of the N_CPUS environment variable: unset, non-numeric, or a number
NCPUsEnv == {"", "x"} \cup {ToString(n) : n \in -1 .. MaxCPU + 1}

\* The settings of a run on a machine with MaxCPU CPUs: N_CPUS is not set,
\* or set to a number of CPUs below that
RunNCPUs == {""} \cup {ToString(n) : n \in 1 .. MaxCPU - 1}

\* Outcomes of a store read: where it fails, if it does
ReadOutcomes == {"ok", "query", "scan", "rows", "close"}

\* HTTP answers of the merge API (0: the request itself failed)
Statuses == {200, 401, 500, 0}

VARIABLES
  identities,   \* the identities table of the store
  envJWT,       \* the JWT_TOKEN environment variable
  envNCPUs,     \* the N_CPUS environment variable ("": not set)
  numCPU,       \* runtime.NumCPU() of the machine
  cpc,          \* position of cleanupProfiles (the dispatcher)
  ids, uuids, sources, names, usernames, emails,  \* candidate columns
  idMap, uuidMap,  \* target index: key -> id, key -> uuid
  thrN, MT,     \* thread budget and the multithreading flag
  mtx, mtxHolder,  \* tally mutex handle and the unit holding it (0: free)
  ch,           \* result channel handle
  nThreads,     \* in-flight counter of the dispatcher
  nextI,        \* next index the dispatch loop launches
  merges,       \* merge tally
  errs,         \* error list of the dispatcher
  upc,          \* position of each unit
  uerr,         \* named result err of each unit
  utmp,         \* value of merges a unit loaded for merges++ (0 outside it)
  attempt,      \* loop variable i of executeAffiliationsAPICall, per unit (0 outside the call)
  gToken, gTokenMtx,  \* API token and the unit holding its mutex (0: free)
  calls,        \* external calls issued, per unit: merge pairs <<source, target>>,
                \* or the lookups and store statements of the email flow
  launched, received,  \* per unit: times launched, times its result was read
  reported,     \* merge tallies printed
  orphanExecs,  \* orphan delete statements issued
  orphanRes,    \* outcome of the orphan delete: "none", "ok" or "error"
  deleteOrphaned,  \* DELETE_ORPHANED as the run read it (Nil until it is read)
  exited,       \* Nil while the process runs, else its exit status
  retErr,       \* value returned by the flow, "running" before it returns
  phase,        \* pool that runs: "merge", or "identities" then "profiles"
  profiles,     \* the profiles table of the store
  puuids, pemails,  \* profile columns of cleanupEmails
  validateDomain,   \* SKIP_VALIDATE_DOMAIN is not set
  emailsCache,  \* validity cache: email or domain -> valid
  uuidsAffsCache,   \* cache of uuidAffs: joined arguments -> hash
  emailsCacheMtx, uuidsAffsCacheMtx,  \* the RWMutex of each cache: whether it
                \* was made, the units holding it for reading, and the unit
                \* holding it for writing (0: none)
  updates, mismatch, pupdates,  \* tallies of cleanupEmails
  uvalid,       \* result valid of isValidEmail, per unit
  uidentities,  \* the uidentities table of the store: its uuid primary keys
  deleted       \* rows the orphan delete affected

vars == <<identities, envJWT, envNCPUs, numCPU, cpc, ids, uuids, sources, names, usernames, emails,
          idMap, uuidMap, thrN, MT, mtx, mtxHolder, ch, nThreads, nextI,
          merges, errs, upc, uerr, utmp, attempt, gToken, gTokenMtx, calls,
          launched, received, reported, orphanExecs, orphanRes, deleteOrphaned, exited,
          retErr, phase, profiles, puuids, pemails, validateDomain,
          emailsCache, uuidsAffsCache, emailsCacheMtx, uuidsAffsCacheMtx,
          updates, mismatch, pupdates, uvalid, uidentities, deleted>>

dataVars == <<ids, uuids, sources, names, usernames, emails>>
indexVars == <<idMap, uuidMap>>
envVars == <<identities, envJWT, envNCPUs, numCPU>>
poolVars == <<mtx, mtxHolder, ch, nThreads, nextI, errs>>
unitVars == <<upc, uerr, utmp, attempt, calls, launched, received>>
tokenVars == <<gToken, gTokenMtx>>
orphanVars == <<orphanExecs, orphanRes, deleteOrphaned, uidentities, deleted>>
tailVars == <<reported, orphanVars, retErr>>
cacheMtxVars == <<emailsCacheMtx, uuidsAffsCacheMtx>>
tallyVars == <<updates, mismatch, pupdates>>
emailVars == <<phase, profiles, puuids, pemails, validateDomain, emailsCache,
               uuidsAffsCache, cacheMtxVars, tallyVars, uvalid>>

\* var emailsCacheMtx *sync.RWMutex: the nil pointer, and &sync.RWMutex{}
NoRWMutex == [made |-> FALSE, readers |-> {}, writer |-> 0]
NewRWMutex == [made |-> TRUE, readers |-> {}, writer |-> 0]

\* Number of units of the pool that runs
N == IF phase = "profiles" THEN Len(puuids) ELSE Len(ids)
Units == 1 .. N

----------------------------------------------------------------------------
\* Pure helpers

\* Variant: the email is appended before the username
getKey_EmailFirst(source, username, email) ==
  LET k1 == IF email # Nil /\ email # "" THEN source \o ":" \o email
            ELSE source
  IN  IF username # Nil /\ username # "" THEN k1 \o ":" \o username ELSE k1

\* getKey: source, then ":"+username and ":"+email when non-nil and non-empty
getKey(source, username, email) ==
  LET k1 == IF username # Nil /\ username # "" THEN source \o ":" \o username
            ELSE source
  IN  IF email # Nil /\ email # "" THEN k1 \o ":" \o email ELSE k1

\* MySQL trim(): strips leading and trailing spaces
RECURSIVE TrimLeft(_)
TrimLeft(s) ==
  IF Len(s) > 0 /\ SubSeq(s, 1, 1) = " " THEN TrimLeft(SubSeq(s, 2, Len(s))) ELSE s
RECURSIVE TrimRight(_)
TrimRight(s) ==
  IF Len(s) > 0 /\ SubSeq(s, Len(s), Len(s)) = " "
  THEN TrimRight(SubSeq(s, 1, Len(s) - 1)) ELSE s
Trim(s) == TrimRight(TrimLeft(s))

\* x is not null and trim(x) != ''
NonBlank(x) == x # Nil /\ Trim(x) # ""

\* name like '%-MISSING-NAME'
LikeMissingName(name) ==
  /\ name # Nil
  /\ Len(name) >= 13
  /\ SubSeq(name, Len(name) - 12, Len(name)) = "-MISSING-NAME"

\* where clause of the repair population query
IsRepairRow(r) ==
  LikeMissingName(r.name) /\ (NonBlank(r.username) \/ NonBlank(r.email))

\* where clause of the target population query
IsTargetRow(r) ==
  (r.name = Nil \/ Trim(r.name) = "") /\ (NonBlank(r.username) \/ NonBlank(r.email))

\* Row numbers of the table that satisfy the where clause of a population
\* ("repair" or "target"), in table order
RECURSIVE SelectFrom(_, _, _)
SelectFrom(tab, k, population) ==
  IF k > Len(tab) THEN <<>>
  ELSE LET hit == IF population = "repair" THEN IsRepairRow(tab[k])
                  ELSE IsTargetRow(tab[k])
       IN  (IF hit THEN <<k>> ELSE <<>>) \o SelectFrom(tab, k + 1, population)

RepairRows(tab) == SelectFrom(tab, 1, "repair")
TargetRows(tab) == SelectFrom(tab, 1, "target")

\* Put key |-> val into map m (Go map assignment)
MapPut(m, key, val) ==
  [k \in DOMAIN m \cup {key} |-> IF k = key THEN val ELSE m[k]]

EmptyMap == [k \in {} |-> Nil]

\* The target scan loop over rows sel[k..]: idMap[key] = id for every row,
\* uuidMap[key] = *uuid for every row with a non-nil uuid
RECURSIVE BuildIdMap(_, _, _, _)
BuildIdMap(tab, sel, k, m) ==
  IF k > Len(sel) THEN m
  ELSE LET r == tab[sel[k]]
       IN  BuildIdMap(tab, sel, k + 1,
                      MapPut(m, getKey(r.source, r.username, r.email), r.id))

RECURSIVE BuildUuidMap(_, _, _, _)
BuildUuidMap(tab, sel, k, m) ==
  IF k > Len(sel) THEN m
  ELSE LET r == tab[sel[k]]
       IN  BuildUuidMap(tab, sel, k + 1,
                        IF r.uuid # Nil
                        THEN MapPut(m, getKey(r.source, r.username, r.email), r.uuid)
                        ELSE m)

\* strconv.Atoi on the strings of the model: an optional sign and decimal
\* digits give the number, anything else an error
DigitChars == "0123456789"
IsDigit(c) == \E d \in 1 .. 10 : SubSeq(DigitChars, d, d) = c
DigitVal(c) == (CHOOSE d \in 1 .. 10 : SubSeq(DigitChars, d, d) = c) - 1
RECURSIVE AllDigits(_)
AllDigits(s) ==
  Len(s) = 0 \/ (IsDigit(SubSeq(s, 1, 1)) /\ AllDigits(SubSeq(s, 2, Len(s))))
RECURSIVE DigitsVal(_, _)
DigitsVal(s, acc) ==
  IF Len(s) = 0 THEN acc
  ELSE DigitsVal(SubSeq(s, 2, Len(s)), 10 * acc + DigitVal(SubSeq(s, 1, 1)))
Atoi(s) ==
  LET signed == Len(s) > 0 /\ SubSeq(s, 1, 1) \in {"-", "+"}
      body == IF signed THEN SubSeq(s, 2, Len(s)) ELSE s
  IN  IF Len(body) = 0 \/ ~AllDigits(body) THEN [val |-> 0, err |-> "syntax"]
      ELSE [val |-> IF signed /\ SubSeq(s, 1, 1) = "-"
                    THEN 0 - DigitsVal(body, 0) ELSE DigitsVal(body, 0),
            err |-> Nil]

\* Variant: a positive N_CPUS is not capped to the CPUs of the machine
getThreadsNum_NoCap(nCPUsStr, n) ==
  LET parsed == Atoi(nCPUsStr)
      nCPUs == IF nCPUsStr = "" THEN 0
               ELSE IF parsed.err # Nil \/ parsed.val < 0 THEN 0 ELSE parsed.val
  IN  IF nCPUs > 0 THEN nCPUs ELSE n

\* getThreadsNum: the budget for N_CPUS = nCPUsStr on a machine with n CPUs
getThreadsNum(nCPUsStr, n) ==
  LET parsed == Atoi(nCPUsStr)
      nCPUs == IF nCPUsStr = "" THEN 0
               ELSE IF parsed.err # Nil \/ parsed.val < 0 THEN 0 ELSE parsed.val
  IN  IF nCPUs > 0 THEN (IF nCPUs > n THEN n ELSE nCPUs)
      ELSE n

----------------------------------------------------------------------------
\* Email validity: the pure part of isValidEmail

\* Character c is one of the characters of the string set
InChars(c, set) == \E d \in 1 .. Len(set) : SubSeq(set, d, d) = c

AlnumChars == "abcdefghijklmnopqrstuvwxyzABCDEFGHIJKLMNOPQRSTUVWXYZ0123456789"
\* The characters EmailRegex allows before the @, besides letters and digits
\* (the backquote, which no email of the model contains, cannot be written
\* in a string here)
LocalPunct == ".!#$%&'*+/=?^_{|}~-"
\* Characters the pattern \s matches
SpaceChars == " \t\n\r\f"

IsAlnum(c) == InChars(c, AlnumChars)
IsLocalChar(c) == IsAlnum(c) \/ InChars(c, LocalPunct)
IsSpace(c) == InChars(c, SpaceChars)

\* What character k of s becomes when every run of whitespace is replaced
\* by " ": itself, or " " at the end of a run, or nothing inside a run
CollapsePiece(s, k) ==
  IF ~IsSpace(SubSeq(s, k, k)) THEN SubSeq(s, k, k)
  ELSE IF k < Len(s) /\ IsSpace(SubSeq(s, k + 1, k + 1)) THEN ""
  ELSE " "

\* The pieces of characters lo..hi of s, joined (by halves, so that texts of
\* a few hundred characters need only a shallow recursion)
RECURSIVE CollapseRange(_, _, _)
CollapseRange(s, lo, hi) ==
  IF lo > hi THEN ""
  ELSE IF lo = hi THEN CollapsePiece(s, lo)
  ELSE LET mid == (lo + hi) \div 2
       IN  CollapseRange(s, lo, mid) \o CollapseRange(s, mid + 1, hi)

\* WhiteSpace.ReplaceAllString(s, " "): every run of whitespace becomes " "
CollapseSpace(s) == CollapseRange(s, 1, Len(s))

\* The old/new pairs of EmailReplacer, in argument order
ReplacerPairs ==
  << <<" at ", "@">>, <<" AT ", "@">>, <<" At ", "@">>,
     <<" dot ", ".">>, <<" DOT ", ".">>, <<" Dot ", ".">>,
     <<"<", "">>, <<">", "">> >>

HasPrefix(s, pre) == Len(s) >= Len(pre) /\ SubSeq(s, 1, Len(pre)) = pre

\* The pairs whose old string starts at position k of s
PairsAt(s, k) ==
  {j \in DOMAIN ReplacerPairs : HasPrefix(SubSeq(s, k, Len(s)), ReplacerPairs[j][1])}

\* EmailReplacer.Replace(s): scan left to right; at each place the first
\* pair whose old string starts there is replaced, without overlap
RECURSIVE ReplaceAll(_)
ReplaceAll(s) ==
  LET places == {k \in 1 .. Len(s) : PairsAt(s, k) # {}}
  IN  IF places = {} THEN s
      ELSE LET k == CHOOSE p \in places : \A q \in places : p <= q
               j == CHOOSE h \in PairsAt(s, k) : \A g \in PairsAt(s, k) : h <= g
           IN  SubSeq(s, 1, k - 1) \o ReplacerPairs[j][2]
                 \o ReplaceAll(SubSeq(s, k + Len(ReplacerPairs[j][1]), Len(s)))

\* strings.TrimSpace
RECURSIVE TrimSpaceLeft(_)
TrimSpaceLeft(s) ==
  IF Len(s) > 0 /\ IsSpace(SubSeq(s, 1, 1))
  THEN TrimSpaceLeft(SubSeq(s, 2, Len(s))) ELSE s
RECURSIVE TrimSpaceRight(_)
TrimSpaceRight(s) ==
  IF Len(s) > 0 /\ IsSpace(SubSeq(s, Len(s), Len(s)))
  THEN TrimSpaceRight(SubSeq(s, 1, Len(s) - 1)) ELSE s
TrimSpace(s) == TrimSpaceRight(TrimSpaceLeft(s))

\* Position of the first occurrence of character c in s at or after k, 0 if
\* none
IndexFrom(s, c, k) ==
  LET places == {p \in k .. Len(s) : SubSeq(s, p, p) = c}
  IN  IF places = {} THEN 0
      ELSE CHOOSE p \in places : \A q \in places : p <= q
Index(s, c) == IndexFrom(s, c, 1)

\* strings.Split(s, sep)[0] and [1] for a one-character sep
SplitFirst(s, sep) == IF Index(s, sep) = 0 THEN s ELSE SubSeq(s, 1, Index(s, sep) - 1)
SplitSecond(s, sep) ==
  LET rest == SubSeq(s, Index(s, sep) + 1, Len(s))
  IN  SplitFirst(rest, sep)

\* The email as isValidEmail matches it: whitespace collapsed, replacer
\* applied, trimmed, cut at the first space
NormalizeEmail(email) ==
  SplitFirst(TrimSpace(ReplaceAll(CollapseSpace(email))), " ")

\* Every character of s is one EmailRegex allows before the @
AllLocalChars(s) == \A k \in 1 .. Len(s) : IsLocalChar(SubSeq(s, k, k))

\* Every character of s is a letter, a digit or "-"
AllLabelChars(s) ==
  \A k \in 1 .. Len(s) : IsAlnum(SubSeq(s, k, k)) \/ SubSeq(s, k, k) = "-"

\* [a-zA-Z0-9](?:[a-zA-Z0-9-]{0,61}[a-zA-Z0-9])?
IsLabel(s) ==
  /\ Len(s) >= 1 /\ Len(s) <= 63
  /\ IsAlnum(SubSeq(s, 1, 1))
  /\ IsAlnum(SubSeq(s, Len(s), Len(s)))
  /\ AllLabelChars(s)

\* label(\.label)*
RECURSIVE IsDomainName(_)
IsDomainName(s) ==
  IF Index(s, ".") = 0 THEN IsLabel(s)
  ELSE /\ IsLabel(SubSeq(s, 1, Index(s, ".") - 1))
       /\ IsDomainName(SubSeq(s, Index(s, ".") + 1, Len(s)))

\* EmailRegex.MatchString
MatchesEmailRegex(s) ==
  LET at == Index(s, "@")
  IN  /\ at > 1
      /\ AllLocalChars(SubSeq(s, 1, at - 1))
      /\ IsDomainName(SubSeq(s, at + 1, Len(s)))

----------------------------------------------------------------------------
\* Initial state: a store, an environment, nothing run yet

\* Tables of up to MaxRows rows; the rows with a name come before the rows
\* without one (both scans select by where clause and keep table order, so
\* the order between the two populations is immaterial)
Tables ==
  { WithIds(tab) : tab \in
      { t \in UNION {[1 .. n -> IdentityRows] : n \in 0 .. MaxRows} :
          \A j, k \in DOMAIN t : (j < k /\ t[j].name = Nil) => t[k].name = Nil } }

\* Nothing of cleanupProfiles has run
NotStarted ==
  /\ cpc = "start"
  /\ ids = <<>> /\ uuids = <<>> /\ sources = <<>>
  /\ names = <<>> /\ usernames = <<>> /\ emails = <<>>
  /\ idMap = EmptyMap /\ uuidMap = EmptyMap
  /\ thrN = 0 /\ MT = FALSE
  /\ mtx = Nil /\ mtxHolder = 0
  /\ ch = Nil
  /\ nThreads = 0 /\ nextI = 1
  /\ merges = 0
  /\ errs = <<>>
  /\ upc = <<>> /\ uerr = <<>> /\ utmp = <<>> /\ attempt = <<>>
  /\ gToken = "" /\ gTokenMtx = 0
  /\ calls = <<>>
  /\ launched = <<>> /\ received = <<>>
  /\ reported = <<>>
  /\ orphanExecs = 0
  /\ orphanRes = "none"
  /\ deleteOrphaned = Nil
  /\ uidentities = {} /\ deleted = 0
  /\ exited = Nil
  /\ retErr = "running"
  /\ phase = "merge"
  /\ profiles = <<>>
  /\ puuids = <<>> /\ pemails = <<>>
  /\ validateDomain = TRUE
  /\ emailsCache = EmptyMap /\ uuidsAffsCache = EmptyMap
  /\ emailsCacheMtx = NoRWMutex /\ uuidsAffsCacheMtx = NoRWMutex
  /\ updates = 0 /\ mismatch = 0 /\ pupdates = 0
  /\ uvalid = <<>>

Init ==
  /\ identities \in Tables
  /\ envJWT \in {"", "jwt"}
  /\ envNCPUs \in RunNCPUs /\ numCPU = MaxCPU
  /\ NotStarted

----------------------------------------------------------------------------
\* cleanupProfiles up to the pool: the two population scans

\* Variant: os.Exit does not stop the other goroutines
Running_AfterExit == TRUE

Running == exited = Nil

\* Columns of the candidate rows sel[1..n] of the table
ColumnOf(tab, sel, n, field) ==
  [k \in 1 .. n |->
     CASE field = "id" -> tab[sel[k]].id
       [] field = "uuid" -> tab[sel[k]].uuid
       [] field = "source" -> tab[sel[k]].source
       [] field = "name" -> tab[sel[k]].name
       [] field = "username" -> tab[sel[k]].username
       [] field = "email" -> tab[sel[k]].email]

\* API_URL check and the repair population query
Start ==
  /\ Running /\ cpc = "start" /\ phase = "merge"
  /\ \E apiPath \in {"", "http://api"}, queryOk \in BOOLEAN :
       IF apiPath = ""
       THEN /\ retErr' = "API_URL must be set"
            /\ cpc' = "done"
       ELSE IF ~queryOk
       THEN /\ retErr' = "store error"
            /\ cpc' = "done"
       ELSE /\ cpc' = "threads"
            /\ UNCHANGED retErr
  /\ UNCHANGED <<emailVars, envVars, dataVars, indexVars, thrN, MT, poolVars, merges,
                 unitVars, tokenVars, reported, orphanVars, exited>>

\* thrN := getThreadsNum(), which also sets MT
GetThreadsNum ==
  /\ Running /\ cpc = "threads"
  /\ thrN' = getThreadsNum(envNCPUs, numCPU)
  /\ MT' = (thrN' > 1)
  /\ emailsCacheMtx' = IF MT' THEN NewRWMutex ELSE emailsCacheMtx
  /\ uuidsAffsCacheMtx' = IF MT' THEN NewRWMutex ELSE uuidsAffsCacheMtx
  /\ cpc' = "scan"
  /\ UNCHANGED <<phase, profiles, puuids, pemails, validateDomain, emailsCache,
                 uuidsAffsCache, tallyVars, uvalid,
                 envVars, dataVars, indexVars, poolVars, merges, unitVars,
                 tokenVars, tailVars, exited>>

\* The scan loop of the repair population, rows.Err and rows.Close
ScanRepair ==
  /\ Running /\ cpc = "scan"
  /\ LET sel == RepairRows(identities)
     IN \E outcome \in ReadOutcomes \ {"query"}, stop \in 0 .. Len(sel) :
          \* a failing Scan leaves the rows before it appended
          /\ (outcome = "scan") => stop < Len(sel)
          /\ (outcome # "scan") => stop = Len(sel)
          /\ ids' = ColumnOf(identities, sel, stop, "id")
          /\ uuids' = ColumnOf(identities, sel, stop, "uuid")
          /\ sources' = ColumnOf(identities, sel, stop, "source")
          /\ names' = ColumnOf(identities, sel, stop, "name")
          /\ usernames' = ColumnOf(identities, sel, stop, "username")
          /\ emails' = ColumnOf(identities, sel, stop, "email")
          /\ upc' = [k \in 1 .. stop |-> "idle"]
          /\ uerr' = [k \in 1 .. stop |-> Nil]
          /\ utmp' = [k \in 1 .. stop |-> 0]
          /\ attempt' = [k \in 1 .. stop |-> 0]
          /\ calls' = [k \in 1 .. stop |-> <<>>]
          /\ launched' = [k \in 1 .. stop |-> 0]
          /\ received' = [k \in 1 .. stop |-> 0]
          /\ IF outcome = "ok"
             THEN cpc' = "targets" /\ UNCHANGED retErr
             ELSE cpc' = "done" /\ retErr' = "store error"
  /\ UNCHANGED <<emailVars, envVars, indexVars, thrN, MT, poolVars, merges, tokenVars,
                 reported, orphanVars, exited>>

\* Variant: a failing read of the target population leaves the rows read so
\* far in the index and the run goes on to the pool
ScanTargets_UsePartial ==
  /\ Running /\ cpc = "targets"
  /\ LET sel == TargetRows(identities)
     IN \E outcome \in ReadOutcomes, stop \in 0 .. Len(sel) :
          /\ (outcome = "query") => stop = 0
          /\ (outcome = "scan") => stop < Len(sel)
          /\ (outcome \in {"ok", "rows", "close"}) => stop = Len(sel)
          /\ idMap' = BuildIdMap(identities, SubSeq(sel, 1, stop), 1, EmptyMap)
          /\ uuidMap' = BuildUuidMap(identities, SubSeq(sel, 1, stop), 1, EmptyMap)
          /\ cpc' = "pool"
          /\ retErr' = IF outcome = "ok" THEN retErr ELSE "store error"
  /\ UNCHANGED <<emailVars, envVars, dataVars, thrN, MT, poolVars, merges, unitVars,
                 tokenVars, reported, orphanVars, exited>>

\* The target population query and its scan loop, which builds the index
ScanTargets ==
  /\ Running /\ cpc = "targets"
  /\ LET sel == TargetRows(identities)
     IN \E outcome \in ReadOutcomes, stop \in 0 .. Len(sel) :
          /\ (outcome = "query") => stop = 0
          /\ (outcome = "scan") => stop < Len(sel)
          /\ (outcome \in {"ok", "rows", "close"}) => stop = Len(sel)
          /\ idMap' = BuildIdMap(identities, SubSeq(sel, 1, stop), 1, EmptyMap)
          /\ uuidMap' = BuildUuidMap(identities, SubSeq(sel, 1, stop), 1, EmptyMap)
          /\ IF outcome = "ok"
             THEN cpc' = "pool" /\ UNCHANGED retErr
             ELSE cpc' = "done" /\ retErr' = "store error"
  /\ UNCHANGED <<emailVars, envVars, dataVars, thrN, MT, poolVars, merges, unitVars,
                 tokenVars, reported, orphanVars, exited>>

----------------------------------------------------------------------------
\* The pool of cleanupProfiles: dispatcher side

\* Variant: nil results are appended too
AppendErr_Always(list, e) == Append(list, e)

\* Append e to the error list unless it is nil
AppendErr(list, e) == IF e # Nil THEN Append(list, e) ELSE list

\* Does the run take the goroutine branch?
Concurrent(t) == t > 0

\* errs := []error{} (once per flow: the profile pool of cleanupEmails keeps
\* the list); if thrN > 0 { mtx = &sync.Mutex{}; ch := make(chan error); nThreads := 0
PoolStart ==
  /\ Running /\ cpc = "pool"
  /\ errs' = IF phase = "profiles" THEN errs ELSE <<>>
  /\ IF Concurrent(thrN)
     THEN mtx' = "mutex" /\ ch' = "chan"
     ELSE UNCHANGED <<mtx, ch>>
  /\ nThreads' = 0
  /\ nextI' = 1
  /\ cpc' = "loop"
  /\ UNCHANGED <<emailVars, envVars, dataVars, indexVars, thrN, MT, mtxHolder, merges,
                 unitVars, tokenVars, tailVars, exited>>

\* Variant: the budget test is off by one
MustDrain_OffByOne(n, t) == n = t + 1

\* Does the dispatcher stop to read one result after a launch?
MustDrain(n, t) == n = t

\* One pass of "for i := range ids": in the goroutine branch launch the unit
\* and count it, then read one result if the budget is reached; in the
\* other branch call the unit in the dispatcher itself
Launch ==
  /\ Running /\ cpc = "loop" /\ nextI <= N
  /\ upc' = [upc EXCEPT ![nextI] = "start"]
  /\ launched' = [launched EXCEPT ![nextI] = @ + 1]
  /\ IF ch # Nil
     THEN /\ nThreads' = nThreads + 1
          /\ nextI' = nextI + 1
          /\ cpc' = IF MustDrain(nThreads', thrN) THEN "recv" ELSE "loop"
     ELSE /\ cpc' = "call"
          /\ UNCHANGED <<nThreads, nextI>>
  /\ UNCHANGED <<emailVars, envVars, dataVars, indexVars, thrN, MT, mtx, mtxHolder, ch,
                 errs, merges, uerr, utmp, attempt, calls, received,
                 tokenVars, tailVars, exited>>

\* Variant: the final drain reads one result only
AfterReceive_DrainOnce(pos, n) ==
  IF pos = "recv" THEN "loop" ELSE "tally"

\* Position of the dispatcher after it has read a result at position pos
AfterReceive(pos, n) ==
  IF pos = "recv" THEN "loop" ELSE IF n > 0 THEN "drain" ELSE "tally"

\* Variant: a non-nil result ends the dispatch
Receive_StopOnError(i) ==
  /\ Running /\ upc[i] = "ret"
  /\ IF ch # Nil
     THEN /\ cpc \in {"recv", "drain"}
          /\ nThreads' = nThreads - 1
          /\ cpc' = IF uerr[i] # Nil THEN "tally" ELSE AfterReceive(cpc, nThreads')
          /\ UNCHANGED nextI
     ELSE /\ cpc = "call"
          /\ nextI' = nextI + 1
          /\ cpc' = IF uerr[i] # Nil THEN "tally" ELSE "loop"
          /\ UNCHANGED nThreads
  /\ errs' = AppendErr(errs, uerr[i])
  /\ upc' = [upc EXCEPT ![i] = "done"]
  /\ received' = [received EXCEPT ![i] = @ + 1]
  /\ UNCHANGED <<emailVars, envVars, dataVars, indexVars, thrN, MT, mtx, mtxHolder, ch,
                 merges, uerr, utmp, attempt, calls, launched,
                 tokenVars, tailVars, exited>>

\* The deferred send of unit i meets a receive of the dispatcher
\* (e := <-ch; nThreads--; append if non-nil); with a nil channel the unit
\* returns its error to the calling dispatcher instead
Receive(i) ==
  /\ Running /\ upc[i] = "ret"
  /\ IF ch # Nil
     THEN /\ cpc \in {"recv", "drain"}
          /\ nThreads' = nThreads - 1
          /\ cpc' = AfterReceive(cpc, nThreads')
          /\ UNCHANGED nextI
     ELSE /\ cpc = "call"
          /\ nextI' = nextI + 1
          /\ cpc' = "loop"
          /\ UNCHANGED nThreads
  /\ errs' = AppendErr(errs, uerr[i])
  /\ upc' = [upc EXCEPT ![i] = "done"]
  /\ received' = [received EXCEPT ![i] = @ + 1]
  /\ UNCHANGED <<emailVars, envVars, dataVars, indexVars, thrN, MT, mtx, mtxHolder, ch,
                 merges, uerr, utmp, attempt, calls, launched,
                 tokenVars, tailVars, exited>>

\* Variant: no final drain after the dispatch loop
LoopEnd_NoDrain ==
  /\ Running /\ cpc = "loop" /\ nextI > N
  /\ cpc' = "tally"
  /\ UNCHANGED <<emailVars, envVars, dataVars, indexVars, thrN, MT, poolVars, merges,
                 unitVars, tokenVars, tailVars, exited>>

\* The dispatch loop ends: go to the final drain "for nThreads > 0"
LoopEnd ==
  /\ Running /\ cpc = "loop" /\ nextI > N
  /\ cpc' = IF ch # Nil /\ nThreads > 0 THEN "drain" ELSE "tally"
  /\ UNCHANGED <<emailVars, envVars, dataVars, indexVars, thrN, MT, poolVars, merges,
                 unitVars, tokenVars, tailVars, exited>>

\* if merges > 0 { print the tally }
Tally ==
  /\ Running /\ cpc = "tally" /\ phase = "merge"
  /\ reported' = IF merges > 0 THEN <<merges>> ELSE <<>>
  /\ cpc' = "orphan"
  /\ UNCHANGED <<emailVars, envVars, dataVars, indexVars, thrN, MT, poolVars, merges,
                 unitVars, tokenVars, orphanVars, retErr, exited>>

\* SQL "x not in (select uuid from identities)" for a non-null x, in
\* three-valued logic: "false" if a row has that uuid, else "null" if a row
\* has a null uuid, else "true"
NotInIdentityUuids(x, tab) ==
  IF \E k \in DOMAIN tab : tab[k].uuid = x THEN "false"
  ELSE IF \E k \in DOMAIN tab : tab[k].uuid = Nil THEN "null"
  ELSE "true"

\* The rows "delete from uidentities where uuid not in (select uuid from
\* identities)" deletes: those whose where clause is true
OrphanRows(utab, tab) ==
  {u \in utab : NotInIdentityUuids(u, tab) = "true"}

\* Variant: the delete is issued whatever DELETE_ORPHANED holds
IssuesDelete_Always(flag) == TRUE

\* Is the orphan delete issued when DELETE_ORPHANED holds flag?
IssuesDelete(flag) == flag # ""

\* if DELETE_ORPHANED is set, the orphan delete; its error joins the list
OrphanDelete ==
  /\ Running /\ cpc = "orphan"
  /\ \E flag \in {"", "1"}, e \in {Nil, "exec error"} :
       /\ deleteOrphaned' = flag
       /\ IF IssuesDelete(flag)
          THEN /\ orphanExecs' = orphanExecs + 1
               /\ orphanRes' = IF e # Nil THEN "error" ELSE "ok"
               /\ errs' = AppendErr(errs, e)
               /\ IF e # Nil
                  THEN UNCHANGED <<uidentities, deleted>>
                  ELSE /\ uidentities' = uidentities \ OrphanRows(uidentities, identities)
                       /\ deleted' = Cardinality(OrphanRows(uidentities, identities))
          ELSE /\ e = Nil
               /\ UNCHANGED <<orphanExecs, orphanRes, uidentities, deleted, errs>>
  /\ cpc' = "return"
  /\ UNCHANGED <<emailVars, envVars, dataVars, indexVars, thrN, MT, mtx, mtxHolder, ch,
                 nThreads, nextI, merges, unitVars, tokenVars, reported, retErr,
                 exited>>

\* The aggregate error of an error list: nil when the list is empty
Aggregate(list) ==
  IF Len(list) > 0 THEN ToString(Len(list)) \o " errors" ELSE Nil

\* nErrs := len(errs); if nErrs > 0 { err = "%d errors" }; return
Return ==
  /\ Running /\ cpc = "return"
  /\ retErr' = Aggregate(errs)
  /\ cpc' = "done"
  /\ UNCHANGED <<emailVars, envVars, dataVars, indexVars, thrN, MT, poolVars, merges,
                 unitVars, tokenVars, reported, orphanVars, exited>>

----------------------------------------------------------------------------
\* The unit of cleanupProfiles: processIdentity and the merge API call

\* The error of a merge call that was answered with a status other than 200
\* (status 0: the request failed)
MergeError(uuid, uuid2, status) ==
  "merge " \o uuid \o "/" \o uuid2 \o " status " \o ToString(status)

\* Variant: source and target of the merge are swapped
Decision_Swapped(i) ==
  LET key == getKey(sources[i], usernames[i], emails[i])
  IN  IF key \notin DOMAIN uuidMap THEN <<>>
      ELSE IF uuids[i] = Nil THEN <<>>
      ELSE IF uuids[i] = uuidMap[key] THEN <<>>
      ELSE <<uuidMap[key], uuids[i]>>

\* Variant: the target uuid is looked up in the store at decision time
Decision_FromStore(i) ==
  LET key == getKey(sources[i], usernames[i], emails[i])
      now == BuildUuidMap(identities, TargetRows(identities), 1, EmptyMap)
  IN  IF key \notin DOMAIN now THEN <<>>
      ELSE IF uuids[i] = Nil THEN <<>>
      ELSE IF uuids[i] = now[key] THEN <<>>
      ELSE <<uuids[i], now[key]>>

\* Variant: a candidate whose id differs from its uuid is not merged
Decision_SkipComplex(i) ==
  LET key == getKey(sources[i], usernames[i], emails[i])
  IN  IF key \notin DOMAIN uuidMap THEN <<>>
      ELSE IF uuids[i] = Nil THEN <<>>
      ELSE IF uuids[i] = uuidMap[key] THEN <<>>
      ELSE IF ids[i] # uuids[i] THEN <<>>
      ELSE <<uuids[i], uuidMap[key]>>

\* The merge decision of candidate i: <<>> for none, else <<source, target>>
Decision(i) ==
  LET key == getKey(sources[i], usernames[i], emails[i])
  IN  IF key \notin DOMAIN uuidMap THEN <<>>
      ELSE IF uuids[i] = Nil THEN <<>>
      ELSE IF uuids[i] = uuidMap[key] THEN <<>>
      ELSE <<uuids[i], uuidMap[key]>>

\* processIdentity up to the merge call: look the key up and decide
Decide(i) ==
  /\ Running /\ upc[i] = "start" /\ phase = "merge"
  /\ IF Decision(i) = <<>>
     THEN /\ upc' = [upc EXCEPT ![i] = "ret"]
          /\ UNCHANGED calls
     ELSE /\ upc' = [upc EXCEPT ![i] = "tokenLock"]
          /\ calls' = [calls EXCEPT ![i] = Append(@, Decision(i))]
  /\ UNCHANGED <<cpc, emailVars, envVars, dataVars, indexVars, thrN, MT, poolVars, merges,
                 uerr, utmp, attempt, launched, received, tokenVars,
                 tailVars, exited>>

\* Variant: Lock never blocks
CanLock_Always(holder) == TRUE

\* May a unit take a mutex that holder holds?
CanLock(holder) == holder = 0

\* Variant: the call starts on the token without waiting for gTokenMtx
TokenLock_NoWait(i) ==
  /\ Running /\ upc[i] = "tokenLock"
  /\ gTokenMtx' = i
  /\ upc' = [upc EXCEPT ![i] = "tokenInit"]
  /\ UNCHANGED <<cpc, emailVars, envVars, dataVars, indexVars, thrN, MT, poolVars, merges,
                 uerr, utmp, attempt, calls, launched, received,
                 gToken, tailVars, exited>>

\* gTokenMtx.Lock() at the start of executeAffiliationsAPICall
TokenLock(i) ==
  /\ Running /\ upc[i] = "tokenLock"
  /\ CanLock(gTokenMtx)
  /\ gTokenMtx' = i
  /\ upc' = [upc EXCEPT ![i] = "tokenInit"]
  /\ UNCHANGED <<cpc, emailVars, envVars, dataVars, indexVars, thrN, MT, poolVars, merges,
                 uerr, utmp, attempt, calls, launched, received,
                 gToken, tailVars, exited>>

\* Results of getAPIToken: the JWT_TOKEN of the environment if set, else
\* what the identity provider gives: an error, an empty token or a token
APITokens ==
  IF envJWT # "" THEN {[token |-> envJWT, err |-> Nil]}
  ELSE {[token |-> "", err |-> "auth0 error"], [token |-> "", err |-> Nil],
        [token |-> "Bearer t", err |-> Nil]}

\* Under the token mutex: take the token from JWT_TOKEN or obtain one; exit
\* the process if that fails
TokenInit(i) ==
  /\ Running /\ upc[i] = "tokenInit"
  /\ LET fromEnv == IF gToken = "" THEN envJWT ELSE gToken
     IN IF fromEnv # ""
        THEN /\ gToken' = fromEnv
             /\ UNCHANGED exited
        ELSE \E r \in APITokens :
               /\ gToken' = r.token
               /\ exited' = IF r.err # Nil THEN "1" ELSE Nil
  /\ gTokenMtx' = 0
  /\ upc' = [upc EXCEPT ![i] = "request"]
  /\ attempt' = [attempt EXCEPT ![i] = 0]
  /\ UNCHANGED <<cpc, emailVars, envVars, dataVars, indexVars, thrN, MT, poolVars, merges,
                 uerr, utmp, calls, launched, received, tailVars>>

\* Variant: every 401 is answered with a refresh and a retry
Retries_Always(att, status) == status = 401

\* Does the call refresh the token and retry after this answer?
Retries(att, status) == att = 0 /\ status = 401

\* One pass of the request loop: read the token under its mutex, send the
\* request, and act on the answer
Request(i) ==
  /\ Running /\ upc[i] = "request"
  /\ CanLock(gTokenMtx)
  /\ \E status \in Statuses :
       IF status # 0 /\ Retries(attempt[i], status)
       THEN /\ upc' = [upc EXCEPT ![i] = "refreshLock"]
            /\ UNCHANGED <<uerr, attempt>>
       ELSE IF status # 200
       THEN /\ uerr' = [uerr EXCEPT ![i] = MergeError(calls[i][1][1], calls[i][1][2], status)]
            /\ upc' = [upc EXCEPT ![i] = "ret"]
            /\ attempt' = [attempt EXCEPT ![i] = 0]
       ELSE /\ upc' = [upc EXCEPT ![i] = "incLock"]
            /\ attempt' = [attempt EXCEPT ![i] = 0]
            /\ UNCHANGED uerr
  /\ UNCHANGED <<cpc, emailVars, envVars, dataVars, indexVars, thrN, MT, poolVars, merges,
                 utmp, calls, launched, received, tokenVars, tailVars, exited>>

\* gTokenMtx.Lock() before the refresh
RefreshLock(i) ==
  /\ Running /\ upc[i] = "refreshLock"
  /\ CanLock(gTokenMtx)
  /\ gTokenMtx' = i
  /\ upc' = [upc EXCEPT ![i] = "refresh"]
  /\ UNCHANGED <<cpc, emailVars, envVars, dataVars, indexVars, thrN, MT, poolVars, merges,
                 uerr, utmp, attempt, calls, launched, received,
                 gToken, tailVars, exited>>

\* Variant: the refresh returns without gTokenMtx.Unlock()
Refresh_KeepLock(i) ==
  /\ Running /\ upc[i] = "refresh"
  /\ \E r \in APITokens :
       /\ gToken' = r.token
       /\ exited' = IF r.err # Nil THEN "1" ELSE Nil
  /\ attempt' = [attempt EXCEPT ![i] = 1]
  /\ upc' = [upc EXCEPT ![i] = "request"]
  /\ UNCHANGED <<cpc, emailVars, envVars, dataVars, indexVars, thrN, MT, poolVars, merges,
                 uerr, utmp, calls, launched, received, tailVars, gTokenMtx>>

\* gToken, err = getAPIToken() under the mutex; exit if it fails, else retry
Refresh(i) ==
  /\ Running /\ upc[i] = "refresh"
  /\ \E r \in APITokens :
       /\ gToken' = r.token
       /\ exited' = IF r.err # Nil THEN "1" ELSE Nil
  /\ gTokenMtx' = 0
  /\ attempt' = [attempt EXCEPT ![i] = 1]
  /\ upc' = [upc EXCEPT ![i] = "request"]
  /\ UNCHANGED <<cpc, emailVars, envVars, dataVars, indexVars, thrN, MT, poolVars, merges,
                 uerr, utmp, calls, launched, received, tailVars>>

\* Variant: merges++ is loaded without taking the tally mutex
IncLock_NoMutex(i) ==
  /\ Running /\ upc[i] = "incLock" /\ phase = "merge"
  /\ utmp' = [utmp EXCEPT ![i] = merges]
  /\ upc' = [upc EXCEPT ![i] = "incStore"]
  /\ UNCHANGED <<cpc, emailVars, envVars, dataVars, indexVars, thrN, MT, mtx, mtxHolder,
                 ch, nThreads, nextI, errs, merges, uerr, attempt, calls, launched,
                 received, tokenVars, tailVars, exited>>

\* if mtx != nil { mtx.Lock() }, then the load of merges++
IncLock(i) ==
  /\ Running /\ upc[i] = "incLock" /\ phase = "merge"
  /\ IF mtx # Nil
     THEN CanLock(mtxHolder) /\ mtxHolder' = i
     ELSE UNCHANGED mtxHolder
  /\ utmp' = [utmp EXCEPT ![i] = merges]
  /\ upc' = [upc EXCEPT ![i] = "incStore"]
  /\ UNCHANGED <<cpc, emailVars, envVars, dataVars, indexVars, thrN, MT, mtx, ch, nThreads,
                 nextI, errs, merges, uerr, attempt, calls, launched,
                 received, tokenVars, tailVars, exited>>

\* Variant: after a merge the unit writes the target uuid into its column
IncStore_SyncColumn(i) ==
  /\ Running /\ upc[i] = "incStore" /\ phase = "merge"
  /\ merges' = utmp[i] + 1
  /\ utmp' = [utmp EXCEPT ![i] = 0]
  /\ mtxHolder' = IF mtx # Nil THEN 0 ELSE mtxHolder
  /\ upc' = [upc EXCEPT ![i] = "ret"]
  /\ uuids' = [uuids EXCEPT ![i] = calls[i][1][2]]
  /\ UNCHANGED <<cpc, emailVars, envVars, ids, sources, names, usernames, emails,
                 indexVars, thrN, MT, mtx, ch, nThreads,
                 nextI, errs, uerr, attempt, calls, launched,
                 received, tokenVars, tailVars, exited>>

\* The store of merges++, then if mtx != nil { mtx.Unlock() }
IncStore(i) ==
  /\ Running /\ upc[i] = "incStore" /\ phase = "merge"
  /\ merges' = utmp[i] + 1
  /\ utmp' = [utmp EXCEPT ![i] = 0]
  /\ mtxHolder' = IF mtx # Nil THEN 0 ELSE mtxHolder
  /\ upc' = [upc EXCEPT ![i] = "ret"]
  /\ UNCHANGED <<cpc, emailVars, envVars, dataVars, indexVars, thrN, MT, mtx, ch, nThreads,
                 nextI, errs, uerr, attempt, calls, launched,
                 received, tokenVars, tailVars, exited>>

----------------------------------------------------------------------------
Next ==
  \/ Start
  \/ GetThreadsNum
  \/ ScanRepair
  \/ ScanTargets
  \/ PoolStart
  \/ Launch
  \/ LoopEnd
  \/ Tally
  \/ OrphanDelete
  \/ Return
  \/ \E i \in Units : Receive(i)
  \/ \E i \in Units : Decide(i)
  \/ \E i \in Units : TokenLock(i)
  \/ \E i \in Units : TokenInit(i)
  \/ \E i \in Units : Request(i)
  \/ \E i \in Units : RefreshLock(i)
  \/ \E i \in Units : Refresh(i)
  \/ \E i \in Units : IncLock(i)
  \/ \E i \in Units : IncStore(i)

Spec == Init /\ [][Next]_vars

----------------------------------------------------------------------------
\* cleanupEmails: the store it reads

MaxEmailRows == 2
MaxProfileRows == 1

\* uuid.GenerateIdentity(source, email, name, username): a hash of the four
\* arguments, kept symbolic
GenerateIdentity(source, email, name, username) ==
  "sha1(" \o source \o ":" \o email \o ":" \o name \o ":" \o username \o ")"

\* The key uuidAffs caches a hash under: strings.Join(args, ":")
JoinArgs(source, email, name, username) ==
  source \o ":" \o email \o ":" \o name \o ":" \o username

\* coalesce(x, '')
Coalesce(x) == IF x = Nil THEN "" ELSE x

\* Email texts of the model: an address, and a text that is a domain name
EmailValues == {"a@x.io", "x.io"}

\* Row k of an identities table of the email flow with these emails: its
\* primary key is the hash of its fields, or an id of an older scheme when
\* an earlier row holds that hash
EmailRow(base, k) ==
  [source |-> "gh", name |-> Nil, username |-> "alice", email |-> base[k],
   uuid |-> Nil,
   id |-> IF \E j \in 1 .. k - 1 : base[j] = base[k]
          THEN IdOf(k)
          ELSE GenerateIdentity("gh", base[k], "", "alice")]

\* Identity tables of the email flow: id is the primary key
EmailTables ==
  { [k \in 1 .. n |-> EmailRow(base, k)] :
      n \in 0 .. MaxEmailRows, base \in [1 .. MaxEmailRows -> EmailValues] }

\* Profile tables: row k has uuid P<k>
ProfileUuidOf(k) == "P" \o ToString(k)
ProfileTables ==
  { [k \in 1 .. n |-> [uuid |-> ProfileUuidOf(k), email |-> base[k]]] :
      n \in 0 .. MaxProfileRows, base \in [1 .. MaxProfileRows -> EmailValues] }

\* State before cleanupEmails runs
InitEmails ==
  /\ identities \in EmailTables
  /\ profiles \in ProfileTables
  /\ envJWT = ""
  /\ envNCPUs \in RunNCPUs /\ numCPU = MaxCPU
  /\ cpc = "start"
  /\ ids = <<>> /\ uuids = <<>> /\ sources = <<>>
  /\ names = <<>> /\ usernames = <<>> /\ emails = <<>>
  /\ idMap = EmptyMap /\ uuidMap = EmptyMap
  /\ thrN = 0 /\ MT = FALSE
  /\ mtx = Nil /\ mtxHolder = 0
  /\ ch = Nil
  /\ nThreads = 0 /\ nextI = 1
  /\ merges = 0
  /\ errs = <<>>
  /\ upc = <<>> /\ uerr = <<>> /\ utmp = <<>> /\ attempt = <<>>
  /\ gToken = "" /\ gTokenMtx = 0
  /\ calls = <<>>
  /\ launched = <<>> /\ received = <<>>
  /\ reported = <<>>
  /\ orphanExecs = 0
  /\ orphanRes = "none"
  /\ deleteOrphaned = Nil
  /\ uidentities = {} /\ deleted = 0
  /\ exited = Nil
  /\ retErr = "running"
  /\ phase = "identities"
  /\ puuids = <<>> /\ pemails = <<>>
  /\ validateDomain = TRUE
  /\ emailsCache = EmptyMap /\ uuidsAffsCache = EmptyMap
  /\ emailsCacheMtx = NoRWMutex /\ uuidsAffsCacheMtx = NoRWMutex
  /\ updates = 0 /\ mismatch = 0 /\ pupdates = 0
  /\ uvalid = <<>>

\* email is not null and trim(email) != ''
RECURSIVE SelectNonBlankEmail(_, _)
SelectNonBlankEmail(tab, k) ==
  IF k > Len(tab) THEN <<>>
  ELSE (IF NonBlank(tab[k].email) THEN <<k>> ELSE <<>>)
         \o SelectNonBlankEmail(tab, k + 1)

\* thrN := getThreadsNum(), the identities query with its scan loop, and the
\* SKIP_VALIDATE_DOMAIN flag
EmailsStart ==
  /\ Running /\ cpc = "start" /\ phase = "identities"
  /\ thrN' = getThreadsNum(envNCPUs, numCPU)
  /\ MT' = (thrN' > 1)
  /\ emailsCacheMtx' = IF MT' THEN NewRWMutex ELSE emailsCacheMtx
  /\ uuidsAffsCacheMtx' = IF MT' THEN NewRWMutex ELSE uuidsAffsCacheMtx
  /\ LET sel == SelectNonBlankEmail(identities, 1)
     IN \E outcome \in ReadOutcomes, stop \in 0 .. Len(sel) :
          /\ (outcome = "query") => stop = 0
          /\ (outcome = "scan") => stop < Len(sel)
          /\ (outcome \in {"ok", "rows", "close"}) => stop = Len(sel)
          /\ ids' = [k \in 1 .. stop |-> identities[sel[k]].id]
          /\ sources' = [k \in 1 .. stop |-> identities[sel[k]].source]
          /\ names' = [k \in 1 .. stop |-> Coalesce(identities[sel[k]].name)]
          /\ usernames' = [k \in 1 .. stop |-> Coalesce(identities[sel[k]].username)]
          /\ emails' = [k \in 1 .. stop |-> identities[sel[k]].email]
          /\ upc' = [k \in 1 .. stop |-> "idle"]
          /\ uerr' = [k \in 1 .. stop |-> Nil]
          /\ utmp' = [k \in 1 .. stop |-> 0]
          /\ attempt' = [k \in 1 .. stop |-> 0]
          /\ calls' = [k \in 1 .. stop |-> <<>>]
          /\ launched' = [k \in 1 .. stop |-> 0]
          /\ received' = [k \in 1 .. stop |-> 0]
          /\ uvalid' = [k \in 1 .. stop |-> FALSE]
          /\ IF outcome = "ok"
             THEN /\ cpc' = "pool"
                  /\ validateDomain' \in BOOLEAN
                  /\ UNCHANGED retErr
             ELSE /\ cpc' = "done"
                  /\ retErr' = "store error"
                  /\ UNCHANGED validateDomain
  /\ UNCHANGED <<envVars, uuids, indexVars, poolVars, merges, tokenVars,
                 reported, orphanVars, exited, phase, profiles,
                 puuids, pemails, emailsCache, uuidsAffsCache, updates,
                 mismatch, pupdates>>

\* After the identity pool: print the tally, then the profiles query with
\* its scan loop
EmailsProfiles ==
  /\ Running /\ cpc = "tally" /\ phase = "identities"
  /\ reported' = IF updates > 0 THEN <<updates, mismatch>> ELSE <<>>
  /\ \E outcome \in ReadOutcomes,
        stop \in 0 .. Len(SelectNonBlankEmail(profiles, 1)) :
       LET sel == SelectNonBlankEmail(profiles, 1)
       IN /\ (outcome = "query") => stop = 0
          /\ (outcome = "scan") => stop < Len(sel)
          /\ (outcome \in {"ok", "rows", "close"}) => stop = Len(sel)
          /\ puuids' = [k \in 1 .. stop |-> profiles[sel[k]].uuid]
          /\ pemails' = [k \in 1 .. stop |-> profiles[sel[k]].email]
          /\ IF outcome = "ok"
             THEN /\ cpc' = "pool"
                  /\ phase' = "profiles"
                  /\ upc' = [k \in 1 .. stop |-> "idle"]
                  /\ uerr' = [k \in 1 .. stop |-> Nil]
                  /\ utmp' = [k \in 1 .. stop |-> 0]
                  /\ attempt' = [k \in 1 .. stop |-> 0]
                  /\ calls' = [k \in 1 .. stop |-> <<>>]
                  /\ launched' = [k \in 1 .. stop |-> 0]
                  /\ received' = [k \in 1 .. stop |-> 0]
                  /\ uvalid' = [k \in 1 .. stop |-> FALSE]
                  /\ UNCHANGED retErr
             ELSE /\ cpc' = "done"
                  /\ retErr' = "store error"
                  /\ UNCHANGED <<phase, unitVars, uvalid>>
  /\ UNCHANGED <<envVars, dataVars, indexVars, thrN, MT, poolVars, merges,
                 tokenVars, orphanVars, exited, profiles,
                 validateDomain, emailsCache, uuidsAffsCache, cacheMtxVars,
                 tallyVars>>

\* After the profile pool: print the tally and return err, which holds the
\* nil of the last rows.Close()
EmailsReturn ==
  /\ Running /\ cpc = "tally" /\ phase = "profiles"
  /\ reported' = IF pupdates > 0 THEN <<pupdates>> ELSE <<>>
  /\ retErr' = Nil
  /\ cpc' = "done"
  /\ UNCHANGED <<envVars, dataVars, indexVars, thrN, MT, poolVars, merges,
                 unitVars, tokenVars, orphanVars, exited, phase,
                 profiles, puuids, pemails, validateDomain, emailsCache,
                 uuidsAffsCache, cacheMtxVars, tallyVars, uvalid>>

\* The email unit i validates
EmailOf(i) == IF phase = "profiles" THEN pemails[i] ELSE emails[i]

\* Frame of a unit step of the email flow, apart from upc, uerr, utmp,
\* calls, uvalid, the caches, the counters and the store
EmailUnitFrame ==
  UNCHANGED <<cpc, envJWT, envNCPUs, numCPU, dataVars, indexVars, thrN, MT, mtx, mtxHolder, ch, nThreads,
              nextI, errs, merges, attempt, launched, received, tokenVars,
              tailVars, exited, phase, puuids, pemails, validateDomain,
              cacheMtxVars>>

\* isValidEmail up to the regex: the length test, the cache read, and on a
\* miss the normalisation and EmailRegex.MatchString
IsValidEmail(i) ==
  /\ Running /\ phase # "merge" /\ upc[i] = "start"
  /\ LET email == EmailOf(i)
         l == Len(email)
     IN IF l < 6 /\ l > 254
        THEN /\ uvalid' = [uvalid EXCEPT ![i] = FALSE]
             /\ upc' = [upc EXCEPT ![i] = "invalid"]
        ELSE IF email \in DOMAIN emailsCache
        THEN /\ uvalid' = [uvalid EXCEPT ![i] = emailsCache[email]]
             /\ upc' = [upc EXCEPT ![i] = IF emailsCache[email] THEN "ret" ELSE "invalid"]
        ELSE IF ~MatchesEmailRegex(NormalizeEmail(email))
        THEN /\ uvalid' = [uvalid EXCEPT ![i] = FALSE]
             /\ upc' = [upc EXCEPT ![i] = "cacheEmail"]
        ELSE IF validateDomain
        THEN /\ uvalid' = [uvalid EXCEPT ![i] = FALSE]
             /\ upc' = [upc EXCEPT ![i] = "domain"]
        ELSE /\ uvalid' = [uvalid EXCEPT ![i] = TRUE]
             /\ upc' = [upc EXCEPT ![i] = "cacheEmail"]
  /\ EmailUnitFrame
  /\ UNCHANGED <<identities, profiles, uerr, utmp, calls, emailsCache,
                 uuidsAffsCache, updates, mismatch, pupdates>>

\* parts[1] of strings.Split(email, "@") for the normalised email
DomainOf(email) == SplitSecond(NormalizeEmail(email), "@")

\* isValidDomain up to the lookup: the length test and the cache read
IsValidDomain(i) ==
  /\ Running /\ phase # "merge" /\ upc[i] = "domain"
  /\ LET domain == DomainOf(EmailOf(i))
         l == Len(domain)
     IN IF l < 4 /\ l > 254
        THEN /\ uvalid' = [uvalid EXCEPT ![i] = FALSE]
             /\ upc' = [upc EXCEPT ![i] = "cacheEmail"]
        ELSE IF domain \in DOMAIN emailsCache
        THEN /\ uvalid' = [uvalid EXCEPT ![i] = emailsCache[domain]]
             /\ upc' = [upc EXCEPT ![i] = "cacheEmail"]
        ELSE /\ upc' = [upc EXCEPT ![i] = "mx"]
             /\ UNCHANGED uvalid
  /\ EmailUnitFrame
  /\ UNCHANGED <<identities, profiles, uerr, utmp, calls, emailsCache,
                 uuidsAffsCache, updates, mismatch, pupdates>>

\* What a unit's call record holds for a lookup with this result
MXCall(found) == IF found THEN "mx:found" ELSE "mx:none"

\* net.LookupMX(domain) and the deferred emailsCache[domain] = valid
LookupMX(i) ==
  /\ Running /\ phase # "merge" /\ upc[i] = "mx"
  /\ \E found \in BOOLEAN :
       /\ emailsCache' = MapPut(emailsCache, DomainOf(EmailOf(i)), found)
       /\ uvalid' = [uvalid EXCEPT ![i] = found]
       /\ calls' = [calls EXCEPT ![i] = Append(@, MXCall(found))]
  /\ upc' = [upc EXCEPT ![i] = "cacheEmail"]
  /\ EmailUnitFrame
  /\ UNCHANGED <<identities, profiles, uerr, utmp, uuidsAffsCache,
                 updates, mismatch, pupdates>>

\* The deferred emailsCache[email] = valid of isValidEmail, where email is
\* by then the normalised text; then "if valid { return }"
CacheEmail(i) ==
  /\ Running /\ phase # "merge" /\ upc[i] = "cacheEmail"
  /\ emailsCache' = MapPut(emailsCache, NormalizeEmail(EmailOf(i)), uvalid[i])
  /\ upc' = [upc EXCEPT ![i] = IF uvalid[i] THEN "ret" ELSE "invalid"]
  /\ EmailUnitFrame
  /\ UNCHANGED <<identities, profiles, uerr, utmp, calls, uuidsAffsCache,
                 updates, mismatch, pupdates, uvalid>>

\* uuidAffs: the cached hash if there is one, else GenerateIdentity
uuidAffs(cache, source, email, name, username) ==
  LET k == JoinArgs(source, email, name, username)
  IN  IF k \in DOMAIN cache THEN cache[k]
      ELSE GenerateIdentity(source, email, name, username)

\* The cache after uuidAffs was called with these arguments
uuidAffsCached(cache, source, email, name, username) ==
  LET k == JoinArgs(source, email, name, username)
  IN  IF k \in DOMAIN cache THEN cache
      ELSE MapPut(cache, k, GenerateIdentity(source, email, name, username))

\* Outcomes of one exec against the store, as far as the store's own state
\* does not decide them
ExecOutcomes == {"ok", "error"}

\* Rows of tab with primary key id, as a count
RowsWithId(tab, id) == Cardinality({k \in DOMAIN tab : tab[k].id = id})

\* Variant: the update sets the id and leaves the email
UpdateRows_KeepEmail(tab, id, uuid) ==
  [k \in DOMAIN tab |->
     IF tab[k].id = id THEN [tab[k] EXCEPT !.id = uuid]
     ELSE tab[k]]

\* update identities set email = '', id = uuid where id = id
UpdateRows(tab, id, uuid) ==
  [k \in DOMAIN tab |->
     IF tab[k].id = id THEN [tab[k] EXCEPT !.email = "", !.id = uuid]
     ELSE tab[k]]

\* delete from identities where id = id
DeleteRows(tab, id) == SelectSeq(tab, LAMBDA r : r.id # id)

\* processIdentity after an invalid email: the two uuidAffs calls and the
\* update; "Duplicate entry" when a row with the new id exists
UpdateIdentity(i) ==
  /\ Running /\ phase = "identities" /\ upc[i] = "invalid"
  /\ LET prevUUID == uuidAffs(uuidsAffsCache, sources[i], emails[i], names[i], usernames[i])
         cache1 == uuidAffsCached(uuidsAffsCache, sources[i], emails[i], names[i], usernames[i])
         uuid == uuidAffs(cache1, sources[i], "", names[i], usernames[i])
         affected == RowsWithId(identities, ids[i])
     IN /\ uuidsAffsCache' = uuidAffsCached(cache1, sources[i], "", names[i], usernames[i])
        /\ calls' = [calls EXCEPT ![i] = Append(@, "update")]
        /\ \E outcome \in ExecOutcomes :
             IF outcome = "error"
             THEN /\ uerr' = [uerr EXCEPT ![i] = "store error"]
                  /\ upc' = [upc EXCEPT ![i] = "ret"]
                  /\ UNCHANGED identities
             ELSE IF affected > 0 /\ uuid # ids[i] /\ RowsWithId(identities, uuid) > 0
             THEN /\ upc' = [upc EXCEPT ![i] = "delete"]
                  /\ UNCHANGED <<uerr, identities>>
             ELSE /\ identities' = UpdateRows(identities, ids[i], uuid)
                  /\ upc' = [upc EXCEPT ![i] = IF affected = 0 THEN "ret" ELSE "incLock"]
                  /\ UNCHANGED uerr
  /\ EmailUnitFrame
  /\ UNCHANGED <<profiles, utmp, emailsCache, updates, mismatch, pupdates, uvalid>>

\* Variant: the unit returns right after the delete, without counting
DeleteIdentity_NotCounted(i) ==
  /\ Running /\ phase = "identities" /\ upc[i] = "delete"
  /\ calls' = [calls EXCEPT ![i] = Append(@, "delete")]
  /\ \E outcome \in ExecOutcomes :
       IF outcome = "error"
       THEN /\ uerr' = [uerr EXCEPT ![i] = "store error"]
            /\ UNCHANGED identities
       ELSE /\ identities' = DeleteRows(identities, ids[i])
            /\ UNCHANGED uerr
  /\ upc' = [upc EXCEPT ![i] = "ret"]
  /\ EmailUnitFrame
  /\ UNCHANGED <<profiles, utmp, emailsCache, uuidsAffsCache, updates, mismatch,
                 pupdates, uvalid>>

\* The delete that follows a "Duplicate entry"
DeleteIdentity(i) ==
  /\ Running /\ phase = "identities" /\ upc[i] = "delete"
  /\ calls' = [calls EXCEPT ![i] = Append(@, "delete")]
  /\ \E outcome \in ExecOutcomes :
       IF outcome = "error"
       THEN /\ uerr' = [uerr EXCEPT ![i] = "store error"]
            /\ upc' = [upc EXCEPT ![i] = "ret"]
            /\ UNCHANGED identities
       ELSE /\ identities' = DeleteRows(identities, ids[i])
            /\ upc' = [upc EXCEPT ![i] =
                         IF RowsWithId(identities, ids[i]) = 0 THEN "ret" ELSE "incLock"]
            /\ UNCHANGED uerr
  /\ EmailUnitFrame
  /\ UNCHANGED <<profiles, utmp, emailsCache, uuidsAffsCache, updates, mismatch,
                 pupdates, uvalid>>

\* update profiles set email = '' where uuid = uuid
UpdateProfile(i) ==
  /\ Running /\ phase = "profiles" /\ upc[i] = "invalid"
  /\ calls' = [calls EXCEPT ![i] = Append(@, "update")]
  /\ \E outcome \in ExecOutcomes :
       IF outcome = "error"
       THEN /\ uerr' = [uerr EXCEPT ![i] = "store error"]
            /\ upc' = [upc EXCEPT ![i] = "ret"]
            /\ UNCHANGED profiles
       ELSE /\ profiles' = [k \in DOMAIN profiles |->
                              IF profiles[k].uuid = puuids[i]
                              THEN [profiles[k] EXCEPT !.email = ""]
                              ELSE profiles[k]]
            /\ upc' = [upc EXCEPT ![i] =
                         IF \E k \in DOMAIN profiles : profiles[k].uuid = puuids[i]
                         THEN "incLock" ELSE "ret"]
            /\ UNCHANGED uerr
  /\ EmailUnitFrame
  /\ UNCHANGED <<identities, utmp, emailsCache, uuidsAffsCache, updates, mismatch,
                 pupdates, uvalid>>

\* if mtx != nil { mtx.Lock() } and the load of updates++ or pupdates++
CountLock(i) ==
  /\ Running /\ phase # "merge" /\ upc[i] = "incLock"
  /\ IF mtx # Nil
     THEN CanLock(mtxHolder) /\ mtxHolder' = i
     ELSE UNCHANGED mtxHolder
  /\ utmp' = [utmp EXCEPT ![i] = IF phase = "profiles" THEN pupdates ELSE updates]
  /\ upc' = [upc EXCEPT ![i] = "incStore"]
  /\ UNCHANGED <<cpc, envVars, dataVars, indexVars, thrN, MT, mtx, ch, nThreads,
                 nextI, errs, merges, uerr, attempt, calls, launched, received,
                 tokenVars, tailVars, exited, emailVars>>

\* The store of updates++ with "if prevUUID != id { mismatch++ }", or of
\* pupdates++, then if mtx != nil { mtx.Unlock() }
CountStore(i) ==
  /\ Running /\ phase # "merge" /\ upc[i] = "incStore"
  /\ IF phase = "profiles"
     THEN /\ pupdates' = utmp[i] + 1
          /\ UNCHANGED <<updates, mismatch>>
     ELSE /\ updates' = utmp[i] + 1
          /\ mismatch' = IF uuidAffs(uuidsAffsCache, sources[i], emails[i],
                                     names[i], usernames[i]) # ids[i]
                         THEN mismatch + 1 ELSE mismatch
          /\ UNCHANGED pupdates
  /\ utmp' = [utmp EXCEPT ![i] = 0]
  /\ mtxHolder' = IF mtx # Nil THEN 0 ELSE mtxHolder
  /\ upc' = [upc EXCEPT ![i] = "ret"]
  /\ UNCHANGED <<cpc, envVars, dataVars, indexVars, thrN, MT, mtx, ch, nThreads,
                 nextI, errs, merges, uerr, attempt, calls, launched, received,
                 tokenVars, tailVars, exited, phase, profiles, puuids, pemails,
                 validateDomain, emailsCache, uuidsAffsCache, cacheMtxVars, uvalid>>

NextEmails ==
  \/ EmailsStart
  \/ PoolStart
  \/ Launch
  \/ LoopEnd
  \/ EmailsProfiles
  \/ EmailsReturn
  \/ \E i \in Units : IsValidEmail(i)
  \/ \E i \in Units : IsValidDomain(i)
  \/ \E i \in Units : LookupMX(i)
  \/ \E i \in Units : CacheEmail(i)
  \/ \E i \in Units : UpdateIdentity(i)
  \/ \E i \in Units : DeleteIdentity(i)
  \/ \E i \in Units : UpdateProfile(i)
  \/ \E i \in Units : CountLock(i)
  \/ \E i \in Units : CountStore(i)
  \/ \E i \in Units : Receive(i)

SpecEmails == InitEmails /\ [][NextEmails]_vars

----------------------------------------------------------------------------
\* getKey on its own: one scanned row, one key

\* Arguments of getKey: nil, empty, plain, padded and whitespace-only texts
\* (a username may be an e-mail address)
KeySources == {"src", "gh", "s"}
KeyUsernames == {Nil, "", "u", " u ", "  ", "e@x.com"}
KeyEmails == {Nil, "", "e@x.com", " e@x.com", "  "}

\* One row has been scanned into id, uuid, source, username, email
InitKey ==
  /\ identities = <<>>
  /\ envJWT = ""
  /\ envNCPUs = "" /\ numCPU = MaxCPU
  /\ cpc = "targets"
  /\ ids = <<IdOf(1)>> /\ uuids = <<Nil>>
  /\ sources \in {<<s>> : s \in KeySources}
  /\ names = <<Nil>>
  /\ usernames \in {<<u>> : u \in KeyUsernames}
  /\ emails \in {<<e>> : e \in KeyEmails}
  /\ idMap = EmptyMap /\ uuidMap = EmptyMap
  /\ thrN = getThreadsNum(envNCPUs, numCPU) /\ MT = (thrN > 1)
  /\ mtx = Nil /\ mtxHolder = 0
  /\ ch = Nil
  /\ nThreads = 0 /\ nextI = 1
  /\ merges = 0
  /\ errs = <<>>
  /\ upc = <<>> /\ uerr = <<>> /\ utmp = <<>> /\ attempt = <<>>
  /\ gToken = "" /\ gTokenMtx = 0
  /\ calls = <<>>
  /\ launched = <<>> /\ received = <<>>
  /\ reported = <<>>
  /\ orphanExecs = 0
  /\ orphanRes = "none"
  /\ deleteOrphaned = Nil
  /\ uidentities = {} /\ deleted = 0
  /\ exited = Nil
  /\ retErr = "running"
  /\ phase = "merge"
  /\ profiles = <<>>
  /\ puuids = <<>> /\ pemails = <<>>
  /\ validateDomain = TRUE
  /\ emailsCache = EmptyMap /\ uuidsAffsCache = EmptyMap
  /\ emailsCacheMtx = (IF MT THEN NewRWMutex ELSE NoRWMutex)
  /\ uuidsAffsCacheMtx = (IF MT THEN NewRWMutex ELSE NoRWMutex)
  /\ updates = 0 /\ mismatch = 0 /\ pupdates = 0
  /\ uvalid = <<>>

\* key := getKey(source, username, email); idMap[key] = id
IndexKey ==
  /\ Running /\ cpc = "targets" /\ idMap = EmptyMap /\ Len(ids) = 1
  /\ idMap' = MapPut(idMap, getKey(sources[1], usernames[1], emails[1]), ids[1])
  /\ cpc' = "done"
  /\ UNCHANGED <<emailVars, envVars, dataVars, uuidMap, thrN, MT, poolVars, merges,
                 unitVars, tokenVars, tailVars, exited>>

NextKey == IndexKey

SpecKey == InitKey /\ [][NextKey]_vars

----------------------------------------------------------------------------
\* The merge flow over a store with uidentities rows

MaxOrphanRows == 2

\* uuids of uidentities rows: those identities use, and one they never use
ProfileUuids == Uuids \cup {"U3"}

\* The merge flow starts over an identities table of up to MaxOrphanRows
\* rows and any uidentities table
InitOrphans ==
  /\ identities \in {tab \in Tables : Len(tab) <= MaxOrphanRows}
  /\ envJWT \in {"", "jwt"}
  /\ envNCPUs \in RunNCPUs /\ numCPU = MaxCPU
  /\ cpc = "start"
  /\ ids = <<>> /\ uuids = <<>> /\ sources = <<>>
  /\ names = <<>> /\ usernames = <<>> /\ emails = <<>>
  /\ idMap = EmptyMap /\ uuidMap = EmptyMap
  /\ thrN = 0 /\ MT = FALSE
  /\ mtx = Nil /\ mtxHolder = 0
  /\ ch = Nil
  /\ nThreads = 0 /\ nextI = 1
  /\ merges = 0
  /\ errs = <<>>
  /\ upc = <<>> /\ uerr = <<>> /\ utmp = <<>> /\ attempt = <<>>
  /\ gToken = "" /\ gTokenMtx = 0
  /\ calls = <<>>
  /\ launched = <<>> /\ received = <<>>
  /\ reported = <<>>
  /\ orphanExecs = 0
  /\ orphanRes = "none"
  /\ deleteOrphaned = Nil
  /\ uidentities \in SUBSET ProfileUuids /\ deleted = 0
  /\ exited = Nil
  /\ retErr = "running"
  /\ phase = "merge"
  /\ profiles = <<>>
  /\ puuids = <<>> /\ pemails = <<>>
  /\ validateDomain = TRUE
  /\ emailsCache = EmptyMap /\ uuidsAffsCache = EmptyMap
  /\ emailsCacheMtx = NoRWMutex /\ uuidsAffsCacheMtx = NoRWMutex
  /\ updates = 0 /\ mismatch = 0 /\ pupdates = 0
  /\ uvalid = <<>>

SpecOrphans == InitOrphans /\ [][Next]_vars

----------------------------------------------------------------------------
\* cleanupEmails over a store with emails at and above 254 characters

\* n copies of the text c (by halves)
RECURSIVE Repeat(_, _)
Repeat(c, n) ==
  IF n = 0 THEN ""
  ELSE IF n = 1 THEN c
  ELSE Repeat(c, n \div 2) \o Repeat(c, n - n \div 2)

\* Addresses of 254 and of 255 characters that EmailRegex matches
LongEmailValues == {Repeat("a", 249) \o "@x.io", Repeat("a", 250) \o "@x.io"}

LongEmailTables ==
  { [k \in 1 .. n |-> EmailRow(base, k)] :
      n \in 0 .. MaxEmailRows, base \in [1 .. MaxEmailRows -> LongEmailValues] }

LongProfileTables ==
  { [k \in 1 .. n |-> [uuid |-> ProfileUuidOf(k), email |-> base[k]]] :
      n \in 0 .. MaxProfileRows, base \in [1 .. MaxProfileRows -> LongEmailValues] }

\* State before cleanupEmails runs over such a store
InitLong ==
  /\ identities \in LongEmailTables
  /\ profiles \in LongProfileTables
  /\ envJWT = ""
  /\ envNCPUs \in RunNCPUs /\ numCPU = MaxCPU
  /\ cpc = "start"
  /\ ids = <<>> /\ uuids = <<>> /\ sources = <<>>
  /\ names = <<>> /\ usernames = <<>> /\ emails = <<>>
  /\ idMap = EmptyMap /\ uuidMap = EmptyMap
  /\ thrN = 0 /\ MT = FALSE
  /\ mtx = Nil /\ mtxHolder = 0
  /\ ch = Nil
  /\ nThreads = 0 /\ nextI = 1
  /\ merges = 0
  /\ errs = <<>>
  /\ upc = <<>> /\ uerr = <<>> /\ utmp = <<>> /\ attempt = <<>>
  /\ gToken = "" /\ gTokenMtx = 0
  /\ calls = <<>>
  /\ launched = <<>> /\ received = <<>>
  /\ reported = <<>>
  /\ orphanExecs = 0
  /\ orphanRes = "none"
  /\ deleteOrphaned = Nil
  /\ uidentities = {} /\ deleted = 0
  /\ exited = Nil
  /\ retErr = "running"
  /\ phase = "identities"
  /\ puuids = <<>> /\ pemails = <<>>
  /\ validateDomain = TRUE
  /\ emailsCache = EmptyMap /\ uuidsAffsCache = EmptyMap
  /\ emailsCacheMtx = NoRWMutex /\ uuidsAffsCacheMtx = NoRWMutex
  /\ updates = 0 /\ mismatch = 0 /\ pupdates = 0
  /\ uvalid = <<>>

SpecLong == InitLong /\ [][NextEmails]_vars

----------------------------------------------------------------------------
\* Properties of the merge flow

\* Units launched whose result the dispatcher has not read yet
InFlight == Cardinality({i \in Units : launched[i] > received[i]})

\* The pool is behind the dispatcher: it is at the tally or later
PoolFinished ==
  \/ cpc \in {"tally", "orphan", "return"}
  \/ cpc = "done" /\ retErr \notin {"store error", "API_URL must be set"}

\* C1: with a budget T >= 1, the number of units launched whose result has
\* not been received is never greater than T.
C1_InFlightBound == thrN >= 1 => InFlight <= thrN

\* The dispatcher waits with the budget used up and candidates left
C1_Witness ==
  thrN = 2 /\ InFlight = 2 /\ cpc = "recv" /\ nextI <= N /\ Running

\* C2: every index is dispatched at most once and its result read at most
\* once, never before it was dispatched; when the pool has finished, every
\* index was dispatched once and its one result read once, N results in all.
C2_ExactlyOnce ==
  /\ \A i \in Units : launched[i] <= 1 /\ received[i] <= launched[i]
  /\ PoolFinished =>
       /\ \A i \in Units : launched[i] = 1 /\ received[i] = 1 /\ upc[i] = "done"
       /\ nThreads = 0

\* The pool has finished a run with more candidates than budget
C2_Witness == PoolFinished /\ N = 3 /\ thrN = 2 /\ Running

\* C3: the tally is printed, the orphan delete issued and the aggregate
\* returned only after the results of all N units have been received.
C3_AfterAllReported ==
  (\/ reported # <<>>
   \/ orphanExecs > 0
   \/ retErr \notin {"running", "store error", "API_URL must be set"})
  => \A i \in Units : received[i] = 1

\* A run that printed a tally, issued the delete and returned
C3_Witness ==
  /\ reported # <<>> /\ orphanExecs = 1 /\ cpc = "done" /\ N >= 2
  /\ thrN = 2

\* Has unit i made its merge decision?
Decided(i) == upc[i] \notin {"idle", "start"}

\* C4: a candidate whose key has no indexed target uuid, whose uuid is null
\* or whose uuid is the target's issues no merge call; any other candidate
\* issues exactly one, from its uuid to the indexed target uuid of its key.
C4_MergeDecision ==
  \A i \in Units :
    LET key == getKey(sources[i], usernames[i], emails[i])
        skip == \/ key \notin DOMAIN uuidMap
                \/ uuids[i] = Nil
                \/ uuids[i] = uuidMap[key]
    IN  /\ ~Decided(i) => calls[i] = <<>>
        /\ (Decided(i) /\ skip) => calls[i] = <<>>
        /\ (Decided(i) /\ ~skip) => calls[i] = << <<uuids[i], uuidMap[key]>> >>

\* One finished unit merged, another skipped because it is merged already
C4_Witness ==
  \E i, j \in Units :
    /\ upc[i] = "done" /\ calls[i] = << <<"U2", "U1">> >>
    /\ upc[j] = "done" /\ calls[j] = <<>> /\ uuids[j] = "U1"

\* The target index is complete: the target scan has ended without error
IndexBuilt ==
  \/ cpc \in {"pool", "loop", "recv", "drain", "call"}
  \/ PoolFinished

\* Row number of the first target row of the table that has the key
FirstTarget(key) ==
  LET sel == TargetRows(identities)
      hits == {k \in DOMAIN sel :
                 getKey(identities[sel[k]].source, identities[sel[k]].username,
                        identities[sel[k]].email) = key}
  IN  sel[CHOOSE k \in hits : \A h \in hits : k <= h]

\* C5: the target index maps every key to the id and the uuid of the
\* first-seen target record with that key; later records with the same key
\* change neither mapping.
C5_FirstSeenWins ==
  IndexBuilt =>
    \A key \in DOMAIN idMap :
      LET f == FirstTarget(key)
      IN  /\ idMap[key] = identities[f].id
          /\ IF identities[f].uuid # Nil
             THEN key \in DOMAIN uuidMap /\ uuidMap[key] = identities[f].uuid
             ELSE key \notin DOMAIN uuidMap

\* Did the merge call of unit i return success, and the unit count it?
Counted(i) == calls[i] # <<>> /\ uerr[i] = Nil /\ upc[i] \in {"ret", "done"}

\* C6: the merge tally is the number of units whose merge call succeeded:
\* no increment is lost under any interleaving, and a unit whose call failed
\* leaves the tally alone and returns its error.
C6_TallyExact ==
  /\ merges = Cardinality({i \in Units : Counted(i)})
  /\ \A i \in Units :
       (upc[i] \in {"ret", "done"} /\ calls[i] # <<>> /\ ~Counted(i)) => uerr[i] # Nil

\* Two units ran together; one merge succeeded and one failed
C6_Witness ==
  /\ cpc = "done" /\ thrN = 2 /\ merges = 1 /\ Len(errs) = 1
  /\ \A i \in Units : calls[i] # <<>>

\* C7: once the dispatcher has received an error from a unit it still
\* dispatches every remaining index and receives its result: it leaves the
\* pool only with all N results read.
C7_ErrorsDoNotStop ==
  (\E i \in Units : received[i] = 1 /\ uerr[i] # Nil) =>
    \/ cpc \in {"loop", "recv", "drain", "call"}
    \/ \A j \in Units : launched[j] = 1 /\ received[j] = 1

\* With a budget of 1 the first unit failed and the second ran after it
C7_Witness ==
  /\ thrN = 1 /\ N >= 2 /\ cpc = "done"
  /\ uerr[1] # Nil /\ received[2] = 1 /\ calls[2] # <<>>

\* C8: the error list holds exactly the errors the dispatcher has received
\* from units plus the error of a failed orphan delete, and the flow returns
\* the aggregate of that count, nil when the count is 0.
ErrorCount ==
  Cardinality({i \in Units : received[i] = 1 /\ uerr[i] # Nil})
    + (IF orphanRes = "error" THEN 1 ELSE 0)

C8_AggregateError ==
  /\ Len(errs) = ErrorCount
  /\ (cpc = "done" /\ PoolFinished) =>
       retErr = IF ErrorCount > 0 THEN ToString(ErrorCount) \o " errors" ELSE Nil

\* Two units failed and the orphan delete failed as well
C8_Witness ==
  cpc = "done" /\ retErr = "3 errors" /\ orphanRes = "error"

\* cleanupEmails has returned after both of its pools ran
EmailsReturned == phase = "profiles" /\ cpc = "done"

\* C9: in the email flow, whenever at least one identity unit or profile
\* unit returned an error, cleanupEmails returns the non-nil aggregate error
\* that counts the collected errors.
C9_EmailErrorsReported ==
  (EmailsReturned /\ Len(errs) > 0) => retErr = Aggregate(errs)

\* The pool has been set up: the dispatcher is in it or behind it
PoolStarted ==
  \/ cpc \in {"loop", "recv", "drain", "call"}
  \/ PoolFinished

\* C10: with a budget of 0 or 1 the pool is sequential: no unit runs as a
\* goroutine, there is no result channel and the tally mutex handle is nil.
C10_SequentialForBudgetOne ==
  (PoolStarted /\ thrN <= 1) => (ch = Nil /\ mtx = Nil)

\* Nothing has been issued: no unit launched, no merge call, no orphan
\* delete, no merge counted
NothingIssued ==
  /\ \A i \in DOMAIN launched : launched[i] = 0 /\ calls[i] = <<>>
  /\ orphanExecs = 0
  /\ merges = 0

\* C11: a failure of the query, a row scan, the cursor error check or the
\* cursor close of either population makes cleanupProfiles return at once
\* with that error: no unit is dispatched, no merge call and no orphan delete
\* is issued, and nothing happens after the return.
C11_FailFast ==
  [][ /\ (cpc \in {"start", "scan", "targets"} /\ retErr' # "running") =>
           (cpc' = "done" /\ NothingIssued')
      /\ (cpc \in {"start", "scan", "targets"} /\ cpc' = "done") =>
           retErr' \in {"store error", "API_URL must be set"}
      /\ cpc = "done" => UNCHANGED vars ]_vars

\* The target scan failed after it had read a row, with candidates waiting
C11_Witness ==
  /\ cpc = "done" /\ retErr = "store error"
  /\ Len(ids) > 0 /\ DOMAIN idMap # {}
  /\ NothingIssued

\* The errors a merge call of unit i can end with when the answer is one of
\* the given statuses
CallErrors(i, statuses) ==
  {MergeError(calls[i][1][1], calls[i][1][2], s) : s \in statuses}

\* C12: one merge call sends at most two requests and refreshes the token at
\* most once: only the first request (loop index 0) can lead to a refresh,
\* and then only with no error set; the refresh is followed by the one
\* retry (loop index 1); every other request ends the call, with an error
\* that names a non-200 answer (never a 401 for the first request) or with
\* no error; a request is only sent on entry to the call or after the refresh.
C12_OneRefreshOneRetry ==
  [][ \A i \in DOMAIN upc :
        /\ attempt[i] \in {0, 1}
        /\ (upc[i] = "request" /\ upc'[i] # "request") =>
             \/ attempt[i] = 0 /\ upc'[i] = "refreshLock" /\ uerr'[i] = Nil
             \/ /\ upc'[i] = "ret"
                /\ uerr'[i] \in CallErrors(i, IF attempt[i] = 0 THEN {500, 0}
                                               ELSE {401, 500, 0})
             \/ upc'[i] = "incLock" /\ uerr'[i] = Nil
        /\ (upc[i] = "refreshLock" /\ upc'[i] # "refreshLock") => upc'[i] = "refresh"
        /\ (upc[i] = "refresh" /\ upc'[i] # "refresh") =>
             (upc'[i] = "request" /\ attempt'[i] = 1 /\ uerr'[i] = Nil)
        /\ (upc[i] # "request" /\ upc'[i] = "request") =>
             \/ upc[i] = "tokenInit" /\ attempt'[i] = 0
             \/ upc[i] = "refresh" /\ attempt[i] = 0 ]_vars

\* The retry of a call was answered 401 and the call ended with that error
C12_Witness ==
  \E i \in DOMAIN upc :
    /\ calls[i] # <<>>
    /\ uerr[i] = MergeError(calls[i][1][1], calls[i][1][2], 401)

\* A unit is in the step that obtains the initial token or refreshes it
InTokenStep(i) == upc[i] \in {"tokenInit", "refresh"}

\* C13: the process exits only where obtaining or refreshing the token
\* fails, and then with status 1; from that point no unit is dispatched, no
\* result is read, no unit moves and no result is returned.  A unit that
\* fails in any other way leaves the process running.
C13_ExitOnAuthFailure ==
  /\ [](exited # Nil => (exited = "1" /\ retErr = "running" /\ cpc # "done"))
  /\ [][ /\ (exited = Nil /\ exited' # Nil) =>
              \E i \in DOMAIN upc :
                /\ InTokenStep(i) /\ upc'[i] = "request"
                /\ uerr'[i] = Nil
                /\ gToken' = ""
         /\ (\E i \in DOMAIN upc : uerr[i] = Nil /\ uerr'[i] # Nil) => exited' = Nil
         /\ exited # Nil => UNCHANGED vars ]_vars

\* The process has exited in a token refresh while another unit was in
\* flight and the dispatcher was waiting for a result
C13_Witness ==
  /\ exited = "1"
  /\ cpc \in {"recv", "drain"}
  /\ \E i, j \in DOMAIN upc :
       /\ i # j
       /\ attempt[i] = 1 /\ upc[i] = "request"
       /\ upc[j] \notin {"idle", "ret", "done"}

\* The key the row was indexed under
IndexedKey == CHOOSE k \in DOMAIN idMap : TRUE

\* A text is absent (nil or empty), or has a character that is not whitespace
AbsentText(x) == x = Nil \/ x = ""
PlainText(x) == AbsentText(x) \/ TrimSpace(x) # ""

\* The parts joined with ":"
RECURSIVE JoinColon(_)
JoinColon(parts) ==
  IF Len(parts) = 0 THEN ""
  ELSE IF Len(parts) = 1 THEN parts[1]
  ELSE parts[1] \o ":" \o JoinColon(Tail(parts))

\* C14: for a username and an email that are each absent/empty or contain a
\* non-whitespace character, the key is the source, the username if it is
\* non-empty and the email if it is non-empty, in this order, joined with
\* ":"; key("src","","")="src", key("src","u","")="src:u",
\* key("src","","e@x.com")="src:e@x.com", key("src","u","e@x.com")=
\* "src:u:e@x.com".
C14_KeyComposition ==
  (cpc = "done" /\ Len(ids) = 1 /\ DOMAIN idMap # {}
     /\ PlainText(usernames[1]) /\ PlainText(emails[1])) =>
    LET u == usernames[1]
        e == emails[1]
    IN  /\ Cardinality(DOMAIN idMap) = 1
        /\ IndexedKey =
             JoinColon(<<sources[1]>>
                         \o (IF AbsentText(u) THEN <<>> ELSE <<u>>)
                         \o (IF AbsentText(e) THEN <<>> ELSE <<e>>))
        /\ (sources[1] = "src" /\ u = "" /\ e = "") => IndexedKey = "src"
        /\ (sources[1] = "src" /\ u = "u" /\ e = "") => IndexedKey = "src:u"
        /\ (sources[1] = "src" /\ u = "" /\ e = "e@x.com") =>
             IndexedKey = "src:e@x.com"
        /\ (sources[1] = "src" /\ u = "u" /\ e = "e@x.com") =>
             IndexedKey = "src:u:e@x.com"

\* The key of src, u, e@x.com has been computed
C14_Witness ==
  /\ cpc = "done" /\ Len(ids) = 1
  /\ sources[1] = "src" /\ usernames[1] = "u" /\ emails[1] = "e@x.com"
  /\ DOMAIN idMap = {"src:u:e@x.com"}

\* A text is nil, empty or whitespace only
BlankText(x) == x = Nil \/ TrimSpace(x) = ""

\* C15: a username or email that is empty or whitespace only is left out of
\* the key, and a non-blank one is appended trimmed: key(source, "  ", "  ")
\* = source and key(source, " u ", "") = source:u.
C15_KeyTrimsAndOmitsBlank ==
  (cpc = "done" /\ Len(ids) = 1 /\ DOMAIN idMap # {}) =>
    LET u == usernames[1]
        e == emails[1]
    IN  IndexedKey =
          JoinColon(<<sources[1]>>
                      \o (IF BlankText(u) THEN <<>> ELSE <<TrimSpace(u)>>)
                      \o (IF BlankText(e) THEN <<>> ELSE <<TrimSpace(e)>>))

\* A row with a non-blank name and a non-blank username or email
NamedRow(r) ==
  NonBlank(r.name) /\ (NonBlank(r.username) \/ NonBlank(r.email))

\* C16: the target index holds only records that have a non-blank name and a
\* non-blank username or email; no record with a null or blank name is a
\* merge target.
C16_TargetsHaveName ==
  \A key \in DOMAIN idMap :
    \E k \in DOMAIN identities :
      identities[k].id = idMap[key] /\ NamedRow(identities[k])

\* The repair population as stated: the name carries the missing-name
\* sentinel or is null/blank, and the username or the email is non-blank
StatedRepairRow(r) ==
  /\ LikeMissingName(r.name) \/ r.name = Nil \/ Trim(r.name) = ""
  /\ NonBlank(r.username) \/ NonBlank(r.email)

\* C17: once the repair scan has succeeded, the candidates are exactly the
\* records whose name carries the sentinel or is null/blank and that have a
\* non-blank username or email.
C17_RepairPopulation ==
  (cpc = "targets") =>
    {ids[i] : i \in DOMAIN ids} =
      {identities[k].id : k \in {j \in DOMAIN identities : StatedRepairRow(identities[j])}}

\* uuids of uidentities rows that are the uuid of no identity row
Orphans(utab, tab) ==
  {u \in utab : ~ \E k \in DOMAIN tab : tab[k].uuid = u}

\* C18: with the orphan flag set, a successful sweep deletes exactly the
\* uidentities rows whose uuid is the uuid of no identity row, whatever the
\* identity table holds (null uuids included), and counts 0 deletions when
\* there is no orphan.
C18_OrphanSweepExact ==
  [][ (cpc = "orphan" /\ orphanRes' = "ok") =>
        /\ uidentities' = uidentities \ Orphans(uidentities, identities)
        /\ deleted' = Cardinality(Orphans(uidentities, identities)) ]_vars

\* The (source uuid, target uuid) pairs the candidates are to be merged by
MergePairs == {Decision(i) : i \in DOMAIN ids} \ {<<>>}

\* What a merge call of a pair can end with: nil or the error of an answer
CallOutcomes(pair) ==
  {Nil} \cup {MergeError(pair[1], pair[2], s) : s \in Statuses \ {200}}

\* The ways to fix the outcome of the merge call by its pair
OutcomeFunctions ==
  { f \in [MergePairs -> UNION {CallOutcomes(p) : p \in MergePairs}] :
      \A p \in MergePairs : f[p] \in CallOutcomes(p) }

\* In this run every merge call ended as f says for its pair
RunFollows(f) ==
  \A i \in DOMAIN ids : Decision(i) # <<>> => uerr[i] = f[Decision(i)]

\* C19: when no token acquisition fails and the outcome of each merge call
\* is a fixed function f of its pair, the merge tally and the set of unit
\* errors at the end of the pool are determined by the populations and f
\* alone, whatever the thread budget and the interleaving: T=1 and T=8 give
\* the same tally and the same errors.
C19_BudgetIndependent ==
  (cpc = "tally" /\ phase = "merge" /\ exited = Nil) =>
    \A f \in OutcomeFunctions :
      RunFollows(f) =>
        /\ merges = Cardinality({i \in DOMAIN ids :
                                   Decision(i) # <<>> /\ f[Decision(i)] = Nil})
        /\ {errs[k] : k \in DOMAIN errs} = {f[p] : p \in MergePairs} \ {Nil}

\* Two units ran concurrently on the same pair, both merged
C19_Witness ==
  /\ cpc = "tally" /\ phase = "merge" /\ exited = Nil
  /\ thrN > 1 /\ merges = 2
  /\ \E i, j \in DOMAIN ids :
       i # j /\ Decision(i) # <<>> /\ Decision(i) = Decision(j)
  /\ \E f \in OutcomeFunctions : RunFollows(f)

\* isValidEmail has returned in unit i
Validated(i) ==
  upc[i] \in {"invalid", "delete", "incLock", "incStore", "ret", "done"}

\* C20: an email of more than 254 characters is judged invalid by
\* isValidEmail, with the domain check on or off and whatever it contains.
C20_LongEmailInvalid ==
  phase # "merge" =>
    \A i \in DOMAIN upc :
      (Validated(i) /\ Len(EmailOf(i)) > 254) => ~uvalid[i]


\* The verdict isValidEmail gives email when it runs alone on this cache,
\* with mx the result a lookup would return
SeqVerdict(cache, email, vd, mx) ==
  IF email \in DOMAIN cache THEN cache[email]
  ELSE IF ~MatchesEmailRegex(NormalizeEmail(email)) THEN FALSE
  ELSE IF ~vd THEN TRUE
  ELSE IF DomainOf(email) \in DOMAIN cache THEN cache[DomainOf(email)]
  ELSE mx

\* The cache that call leaves
SeqCacheAfter(cache, email, vd, mx) ==
  IF email \in DOMAIN cache THEN cache
  ELSE LET looked == /\ MatchesEmailRegex(NormalizeEmail(email)) /\ vd
                     /\ DomainOf(email) \notin DOMAIN cache
           c1 == IF looked THEN MapPut(cache, DomainOf(email), mx) ELSE cache
       IN  MapPut(c1, NormalizeEmail(email), SeqVerdict(cache, email, vd, mx))

\* The cache before row k when the rows are validated one after the other
\* in row order, which is what a thread budget of 1 does
RECURSIVE SeqCacheBefore(_, _)
SeqCacheBefore(k, mx) ==
  IF k = 1 THEN EmptyMap
  ELSE SeqCacheAfter(SeqCacheBefore(k - 1, mx), emails[k - 1], validateDomain, mx)

\* Rows judged invalid by that sequential run
SeqInvalid(mx) ==
  {k \in DOMAIN emails :
     ~SeqVerdict(SeqCacheBefore(k, mx), emails[k], validateDomain, mx)}

\* Every lookup of the run returned the result mx
MXFollows(mx) ==
  \A i \in DOMAIN calls : \A k \in DOMAIN calls[i] :
    calls[i][k] \in {MXCall(TRUE), MXCall(FALSE)} => calls[i][k] = MXCall(mx)

\* Units that issued the update of their row
Wrote == {i \in DOMAIN calls : \E k \in DOMAIN calls[i] : calls[i][k] = "update"}

\* The identity pool of the email flow is finished and no unit failed
IdentityPoolClean ==
  cpc = "tally" /\ phase = "identities" /\ exited = Nil /\ errs = <<>>

\* C21: in the email flow, when every lookup returns the same fixed result
\* and every store statement succeeds, the update and mismatch counters and
\* the set of rows written at the end of the identity pool are those of the
\* run that takes the rows one after the other (T=1), whatever the thread
\* budget and the interleaving.
C21_EmailBudgetIndependent ==
  IdentityPoolClean =>
    \A mx \in BOOLEAN :
      MXFollows(mx) =>
        /\ updates = Cardinality(SeqInvalid(mx))
        /\ mismatch = Cardinality({i \in SeqInvalid(mx) :
                         GenerateIdentity(sources[i], emails[i], names[i],
                                          usernames[i]) # ids[i]})
        /\ Wrote = SeqInvalid(mx)


\* C22: the validity cache is transparent: when every lookup returns the
\* same fixed result, the verdict isValidEmail gave a row of the identity
\* pool is the verdict it gives that email on an empty cache, whatever was
\* validated before it in the run.
C22_CacheTransparent ==
  phase = "identities" =>
    \A mx \in BOOLEAN :
      MXFollows(mx) =>
        \A i \in DOMAIN upc :
          Validated(i) =>
            uvalid[i] = SeqVerdict(EmptyMap, emails[i], validateDomain, mx)


----------------------------------------------------------------------------
\* Two runs of cleanupProfiles in a row, with the store effect of the merge
\* endpoint: every identity under the source uuid moves to the target uuid

\* Uuids of the populations of a re-run
RerunUuids == Uuids \cup {"U3"}

\* Rows of those populations: a candidate and a target per key, where the
\* target of gh:alice carries the uuid of the candidate of gh:bob
RerunRows ==
  { [source |-> "gh", name |-> MissingName, uuid |-> "U2", username |-> "alice", email |-> Nil],
    [source |-> "gh", name |-> MissingName, uuid |-> "U1", username |-> "bob", email |-> Nil],
    [source |-> "gh", name |-> Nil, uuid |-> "U1", username |-> "alice", email |-> Nil],
    [source |-> "gh", name |-> Nil, uuid |-> "U3", username |-> "bob", email |-> Nil] }

\* Tables of distinct rows of RerunRows, rows with a name first
RerunTables ==
  { WithIds(tab) : tab \in
      { t \in UNION {[1 .. n -> RerunRows] : n \in 0 .. Cardinality(RerunRows)} :
          /\ \A j, k \in DOMAIN t : j # k => t[j] # t[k]
          /\ \A j, k \in DOMAIN t : (j < k /\ t[j].name = Nil) => t[k].name = Nil } }

\* PUT merge_unique_identities/from/to?archive=true answered with 200: the
\* identities of unique identity from now belong to unique identity to
MergeEffect(tab, from, to) ==
  [k \in DOMAIN tab |->
     IF tab[k].uuid = from THEN [tab[k] EXCEPT !.uuid = to] ELSE tab[k]]

\* Request, with the effect of a successful merge on the store
RequestAndMerge(i) ==
  /\ Running /\ upc[i] = "request"
  /\ CanLock(gTokenMtx)
  /\ \E status \in Statuses :
       IF status # 0 /\ Retries(attempt[i], status)
       THEN /\ upc' = [upc EXCEPT ![i] = "refreshLock"]
            /\ UNCHANGED <<uerr, attempt, identities>>
       ELSE IF status # 200
       THEN /\ uerr' = [uerr EXCEPT ![i] = MergeError(calls[i][1][1], calls[i][1][2], status)]
            /\ upc' = [upc EXCEPT ![i] = "ret"]
            /\ attempt' = [attempt EXCEPT ![i] = 0]
            /\ UNCHANGED identities
       ELSE /\ upc' = [upc EXCEPT ![i] = "incLock"]
            /\ attempt' = [attempt EXCEPT ![i] = 0]
            /\ identities' = MergeEffect(identities, calls[i][1][1], calls[i][1][2])
            /\ UNCHANGED uerr
  /\ UNCHANGED <<cpc, emailVars, envJWT, envNCPUs, numCPU, dataVars, indexVars, thrN, MT,
                 poolVars, merges,
                 utmp, calls, launched, received, tokenVars, tailVars, exited>>

\* The job is started again after a run that returned nil: a new process
\* over the store the last run left; the lines printed so far stay printed
Rerun ==
  /\ Running /\ cpc = "done" /\ retErr = Nil /\ phase = "merge"
  /\ cpc' = "start"
  /\ ids' = <<>> /\ uuids' = <<>> /\ sources' = <<>>
  /\ names' = <<>> /\ usernames' = <<>> /\ emails' = <<>>
  /\ idMap' = EmptyMap /\ uuidMap' = EmptyMap
  /\ thrN' = 0 /\ MT' = FALSE
  /\ mtx' = Nil /\ mtxHolder' = 0
  /\ ch' = Nil
  /\ nThreads' = 0 /\ nextI' = 1
  /\ merges' = 0
  /\ errs' = <<>>
  /\ upc' = <<>> /\ uerr' = <<>> /\ utmp' = <<>> /\ attempt' = <<>>
  /\ gToken' = "" /\ gTokenMtx' = 0
  /\ calls' = <<>>
  /\ launched' = <<>> /\ received' = <<>>
  /\ orphanExecs' = 0
  /\ orphanRes' = "none"
  /\ deleteOrphaned' = Nil
  /\ deleted' = 0
  /\ retErr' = "running"
  /\ UNCHANGED <<envVars, reported, uidentities, exited, emailVars>>

InitRerun ==
  /\ identities \in RerunTables
  /\ envJWT \in {"", "jwt"}
  /\ envNCPUs \in RunNCPUs /\ numCPU = MaxCPU
  /\ cpc = "start"
  /\ ids = <<>> /\ uuids = <<>> /\ sources = <<>>
  /\ names = <<>> /\ usernames = <<>> /\ emails = <<>>
  /\ idMap = EmptyMap /\ uuidMap = EmptyMap
  /\ thrN = 0 /\ MT = FALSE
  /\ mtx = Nil /\ mtxHolder = 0
  /\ ch = Nil
  /\ nThreads = 0 /\ nextI = 1
  /\ merges = 0
  /\ errs = <<>>
  /\ upc = <<>> /\ uerr = <<>> /\ utmp = <<>> /\ attempt = <<>>
  /\ gToken = "" /\ gTokenMtx = 0
  /\ calls = <<>>
  /\ launched = <<>> /\ received = <<>>
  /\ reported = <<>>
  /\ orphanExecs = 0
  /\ orphanRes = "none"
  /\ deleteOrphaned = Nil
  /\ uidentities = {} /\ deleted = 0
  /\ exited = Nil
  /\ retErr = "running"
  /\ phase = "merge"
  /\ profiles = <<>>
  /\ puuids = <<>> /\ pemails = <<>>
  /\ validateDomain = TRUE
  /\ emailsCache = EmptyMap /\ uuidsAffsCache = EmptyMap
  /\ emailsCacheMtx = NoRWMutex /\ uuidsAffsCacheMtx = NoRWMutex
  /\ updates = 0 /\ mismatch = 0 /\ pupdates = 0
  /\ uvalid = <<>>

NextRerun ==
  \/ Start
  \/ GetThreadsNum
  \/ ScanRepair
  \/ ScanTargets
  \/ PoolStart
  \/ Launch
  \/ LoopEnd
  \/ Tally
  \/ OrphanDelete
  \/ Return
  \/ Rerun
  \/ \E i \in Units : Receive(i)
  \/ \E i \in Units : Decide(i)
  \/ \E i \in Units : TokenLock(i)
  \/ \E i \in Units : TokenInit(i)
  \/ \E i \in Units : RequestAndMerge(i)
  \/ \E i \in Units : RefreshLock(i)
  \/ \E i \in Units : Refresh(i)
  \/ \E i \in Units : IncLock(i)
  \/ \E i \in Units : IncStore(i)

SpecRerun == InitRerun /\ [][NextRerun]_vars

\* The run under way follows a run that returned nil after merging something
AfterMergingRun ==
  /\ reported # <<>>
  /\ cpc \in {"start", "threads", "scan", "targets", "pool", "loop", "recv",
              "drain", "call", "tally"}

\* C23: re-running the job is idempotent: a run that follows a run in which
\* merge calls were issued and all of them succeeded issues no merge call.
C23_RerunIdempotent ==
  AfterMergingRun => \A i \in DOMAIN calls : calls[i] = <<>>


----------------------------------------------------------------------------
\* Progress of cleanupProfiles

\* Stores for the progress check: every candidate carries a uuid (one
\* without is skipped like one that has its target's uuid) and every target
\* the uuid U1, so that candidates of all three kinds occur: merged already,
\* to be merged, and without a target
InitLive ==
  /\ Init
  /\ \A k \in DOMAIN identities :
       IF identities[k].name = Nil THEN identities[k].uuid = "U1"
       ELSE identities[k].uuid # Nil

\* Every external call returns and the Go scheduler runs a goroutine that
\* can run: as long as some step of the program is possible, a step is taken
SpecLive == InitLive /\ [][Next]_vars /\ WF_vars(Next)

\* The dispatcher has left the final drain with every result received
PoolDrained ==
  /\ PoolFinished
  /\ nThreads = 0
  /\ \A i \in Units : received[i] = 1 /\ upc[i] = "done"

\* A run in which the pool was left with all of at least two results, under
\* a budget above one, after a refresh of the token
C24_Witness ==
  /\ cpc = "tally" /\ PoolDrained /\ thrN > 1 /\ N >= 2
  /\ \E i \in Units : uerr[i] # Nil
  /\ merges >= 1

\* C24 as stated: every run that reaches the pool ends with the dispatcher
\* having received all N results and an in-flight count of 0.
C24_PoolAlwaysDrained == (cpc = "pool") ~> PoolDrained

\* C24, amended: every run that reaches the pool either ends with the
\* dispatcher having received all N results and an in-flight count of 0, no
\* unit left blocked on the channel or a mutex, or is ended by the exit of
\* the process after a failed token acquisition.
C24_PoolTerminates == (cpc = "pool") ~> (PoolDrained \/ exited # Nil)


\* Units inside an acquisition or a refresh of the token
InTokenSection == {i \in Units : upc[i] \in {"tokenInit", "refresh"}}

\* At most one unit is inside an acquisition or refresh, and it is the
\* holder of the token mutex
TokenSectionExclusive ==
  /\ Cardinality(InTokenSection) <= 1
  /\ \A i \in Units : (i \in InTokenSection) <=> (gTokenMtx = i)

\* A step that writes the token is taken by the holder of the mutex, a step
\* that reads it for a request is taken while no other unit holds the mutex,
\* and a unit that enters the call with a non-empty token in place does not
\* acquire one
TokenStep ==
  /\ gToken' # gToken => (gTokenMtx # 0 /\ gTokenMtx \in InTokenSection)
  /\ \A i \in DOMAIN upc :
       (upc[i] = "request" /\ upc'[i] # "request") => gTokenMtx = 0
  /\ \A i \in DOMAIN upc :
       (upc[i] = "tokenInit" /\ upc'[i] # "tokenInit" /\ gToken # "") =>
         (gToken' = gToken /\ exited' = exited)

\* C25: the token is read and written only under the token mutex, no two
\* acquisitions or refreshes are in progress at the same time, and once an
\* acquisition has left a non-empty token no other unit performs the initial
\* acquisition.
C25_TokenUnderMutex == [](phase = "merge" => TokenSectionExclusive) /\ [][TokenStep]_vars

\* One unit refreshes the token while another waits for the mutex at the
\* start of its call and the token is in place
C25_Witness ==
  /\ \E i, j \in Units :
       /\ i # j /\ upc[i] = "refresh" /\ upc[j] = "tokenLock"
  /\ gToken # "" /\ thrN > 1


\* Some unit of the pool has been launched
AnyLaunched == \E i \in DOMAIN launched : launched[i] > 0

\* The index the target scan would build from the store as it is now
StoreIndex == BuildUuidMap(identities, TargetRows(identities), 1, EmptyMap)

\* The step that closes the second cursor and opens the pool: the pool is
\* entered from the target scan only, with every candidate row of the store
\* in the columns and every target row in the index
ScansClosedAtPool ==
  (cpc # "pool" /\ cpc' = "pool") =>
    /\ cpc = "targets"
    /\ Len(ids) = Cardinality({k \in DOMAIN identities : IsRepairRow(identities[k])})
    /\ \A k \in DOMAIN ids : uuids[k] = identities[RepairRows(identities)[k]].uuid
    /\ uuidMap' = StoreIndex
    /\ ~AnyLaunched

\* The step in which unit i decides: the call it records is the one its
\* columns and the index give, whatever the store holds by then
DecidesFromSnapshot ==
  \A i \in DOMAIN upc :
    (upc[i] = "start" /\ i \in DOMAIN upc' /\ upc'[i] # "start") =>
      LET key == getKey(sources[i], usernames[i], emails[i])
          skip == \/ key \notin DOMAIN uuidMap
                  \/ uuids[i] = Nil
                  \/ uuids[i] = uuidMap[key]
      IN  calls'[i] = IF skip THEN <<>> ELSE << <<uuids[i], uuidMap[key]>> >>

\* C26: both population scans are complete and closed before the first unit
\* is launched, no unit runs before the pool is entered, and the decision of
\* a unit is the one of the snapshot even when another unit's merge has
\* changed the store in the meantime.
C26_SnapshotBeforePool ==
  /\ [](AnyLaunched => cpc \in {"loop", "recv", "drain", "call", "tally",
                                "orphan", "return", "done"})
  /\ [][ScansClosedAtPool /\ DecidesFromSnapshot]_vars

\* A unit has just decided on a merge while the merge of another unit has
\* already changed the target of its key in the store
C26_Witness ==
  \E i, j \in Units :
    /\ i # j
    /\ upc[i] = "tokenLock" /\ calls[i] # <<>>
    /\ upc[j] \in {"incLock", "incStore", "ret", "done"} /\ calls[j] # <<>> /\ uerr[j] = Nil
    /\ LET key == getKey(sources[i], usernames[i], emails[i])
       IN  key \in DOMAIN StoreIndex /\ StoreIndex[key] # uuidMap[key]


\* A unit has been launched and a result is still to be received
PoolUnderWay == AnyLaunched /\ \E i \in DOMAIN received : received[i] = 0

\* C27: from the launch of the first unit until the last result is
\* received, no step changes the target index (idMap, uuidMap) or the
\* candidate columns (ids, uuids, sources, names, usernames, emails).
C27_SnapshotFrozen ==
  [][(PoolUnderWay \/ PoolUnderWay') => UNCHANGED <<indexVars, dataVars>>]_vars

\* Under a budget above one, one unit has finished a merge while the result
\* of another is still to be received
C27_Witness ==
  /\ phase = "merge" /\ thrN > 1 /\ PoolUnderWay
  /\ \E i, j \in Units :
       /\ upc[i] = "done" /\ calls[i] # <<>> /\ uerr[i] = Nil
       /\ received[j] = 0 /\ launched[j] = 1


\* The orphan delete in a state: issued at most once, only with the flag
\* set and past the tally; a failed delete is the last entry of the error
\* list and the run returns the aggregate of that list
OrphanDeleteState ==
  /\ orphanExecs <= 1
  /\ orphanExecs = 1 =>
       /\ deleteOrphaned \notin {Nil, ""}
       /\ cpc \in {"return", "done"}
       /\ merges > 0 => reported = <<merges>>
  /\ deleteOrphaned = "" => (orphanExecs = 0 /\ orphanRes = "none")
  /\ (cpc = "done" /\ orphanRes = "error") =>
       /\ errs # <<>> /\ errs[Len(errs)] = "exec error"
       /\ retErr = ToString(Len(errs)) \o " errors"

\* The orphan delete as a step: it is issued from the point after the tally
\* only, and a failure adds exactly its error to the list and goes on to the
\* return
OrphanDeleteStep ==
  /\ orphanExecs' # orphanExecs => (cpc = "orphan" /\ cpc' = "return")
  /\ (orphanExecs' # orphanExecs /\ orphanRes' = "error") =>
       errs' = Append(errs, "exec error")
  /\ (orphanExecs' # orphanExecs /\ orphanRes' = "ok") => errs' = errs

\* C28: the orphan delete is issued at most once per run, only when
\* DELETE_ORPHANED is set and only after the merge tally; a failed delete
\* adds its error to the error list and the run still returns the aggregate
\* of the list; with the flag unset no delete is issued.
C28_OrphanDeleteOnce ==
  [](phase = "merge" => OrphanDeleteState) /\ [][OrphanDeleteStep]_vars

\* A run with a tally and a failed unit whose orphan delete failed too
C28_Witness ==
  /\ cpc = "done" /\ orphanRes = "error" /\ deleteOrphaned = "1"
  /\ reported # <<>> /\ retErr = "2 errors"


----------------------------------------------------------------------------
\* The writes of cleanupEmails, one pool at a time

\* Stores in which only one of the two tables has rows with an email, so
\* that each pool is explored to the full without the other before it
InitWrites == InitEmails /\ (identities = <<>> \/ profiles = <<>>)

SpecWrites == InitWrites /\ [][NextEmails]_vars

\* The id the update gives row i: the hash of its fields with an empty email
NewIdOf(i) == GenerateIdentity(sources[i], "", names[i], usernames[i])

\* Has unit i issued this statement?
Issued(i, stmt) == \E k \in DOMAIN calls[i] : calls[i][k] = stmt

\* The update and the delete of an identity unit, as steps
DuplicateStep ==
  \A i \in DOMAIN upc :
    (phase = "identities" /\ i \in DOMAIN upc') =>
      \* the update is answered "Duplicate entry": nothing is written and
      \* the unit goes on to the delete without an error
      /\ (upc[i] = "invalid" /\ upc'[i] = "delete") =>
           /\ RowsWithId(identities, NewIdOf(i)) > 0
           /\ identities' = identities /\ uerr'[i] = Nil
      \* the update fails otherwise: the error is returned, nothing is
      \* written, no delete follows and the counters stay
      /\ (upc[i] = "invalid" /\ uerr'[i] # Nil) =>
           /\ upc'[i] = "ret" /\ ~Issued(i, "delete")'
           /\ identities' = identities
           /\ updates' = updates /\ mismatch' = mismatch
      \* the delete succeeds: the row is gone, no error, and the unit goes
      \* on to count the row
      /\ (upc[i] = "delete" /\ upc'[i] # "delete" /\ uerr'[i] = Nil) =>
           /\ RowsWithId(identities', ids[i]) = 0
           /\ upc'[i] = "incLock"
      \* the delete fails: its error is returned and the counters stay
      /\ (upc[i] = "delete" /\ uerr'[i] # Nil) =>
           /\ upc'[i] = "ret" /\ identities' = identities
           /\ updates' = updates /\ mismatch' = mismatch

\* At the end of the identity pool the rows counted are those of the units
\* that issued the update and returned no error, the deleted ones included
DuplicateCounted ==
  (cpc = "tally" /\ phase = "identities") =>
    /\ updates = Cardinality({i \in Units : Issued(i, "update") /\ uerr[i] = Nil})
    /\ \A i \in Units : (uerr[i] # Nil /\ ~Issued(i, "delete")) =>
         calls[i][Len(calls[i])] = "update"

\* C29: in the email flow, an update answered "Duplicate entry" is followed
\* by the delete of the current row, and a successful delete gives no error
\* and a counted row; an update that fails otherwise returns its error,
\* with no delete and no change of the counters.
C29_DuplicateBecomesDelete == []DuplicateCounted /\ [][DuplicateStep]_vars

\* The pool has ended, under a budget above one, with one row re-keyed and
\* the other deleted as its duplicate, both counted
C29_Witness ==
  /\ cpc = "tally" /\ phase = "identities" /\ thrN > 1 /\ updates = 2
  /\ \E i, j \in Units :
       /\ Issued(i, "delete") /\ uerr[i] = Nil
       /\ i # j /\ ~Issued(j, "delete") /\ uerr[j] = Nil


\* Unit i has returned from processIdentity or processProfile
Returned(i) == upc[i] \in {"ret", "done"}

\* The rows of a table, as a set
RowSet(tab) == {tab[k] : k \in DOMAIN tab}

\* What the email flow has written when a unit has returned: nothing for a
\* row judged valid; for an identity row judged invalid, unless a statement
\* failed, no row is left under its old id and the row under the hash of
\* (source, "", name, username) has an empty email; for a profile row judged
\* invalid, unless the update failed, the row of its uuid has an empty email
EmailWrites ==
  \A i \in DOMAIN upc :
    (phase # "merge" /\ Returned(i)) =>
      /\ uvalid[i] =>
           /\ ~Issued(i, "update") /\ ~Issued(i, "delete")
           /\ phase = "identities" =>
                \E r \in RowSet(identities) : r.id = ids[i] /\ r.email = emails[i]
           /\ phase = "profiles" =>
                \E r \in RowSet(profiles) : r.uuid = puuids[i] /\ r.email = pemails[i]
      /\ (~uvalid[i] /\ uerr[i] = Nil /\ phase = "identities") =>
           /\ Issued(i, "update")
           /\ RowsWithId(identities, ids[i]) = 0
           /\ \E r \in RowSet(identities) :
                /\ r.id = NewIdOf(i) /\ r.email = ""
                /\ r.source = sources[i] /\ Coalesce(r.name) = names[i]
                /\ Coalesce(r.username) = usernames[i]
      /\ (~uvalid[i] /\ uerr[i] = Nil /\ phase = "profiles") =>
           /\ Issued(i, "update")
           /\ \E r \in RowSet(profiles) : r.uuid = puuids[i] /\ r.email = ""

\* What a step of the email flow may write: an identity row changes only by
\* losing its email and taking the hash as id, or by being deleted, and only
\* the row of a unit whose email was judged invalid; a profile row changes
\* only by losing its email, and the uuids of the profiles stay
EmailWriteStep ==
  phase # "merge" =>
    /\ \A r \in RowSet(identities) \ RowSet(identities') :
         \E i \in DOMAIN upc :
           /\ ~uvalid[i] /\ upc[i] \in {"invalid", "delete"} /\ r.id = ids[i]
    /\ \A r \in RowSet(identities') \ RowSet(identities) :
         \E i \in DOMAIN upc, old \in RowSet(identities) :
           /\ ~uvalid[i] /\ upc[i] = "invalid" /\ old.id = ids[i]
           /\ r = [old EXCEPT !.email = "", !.id = NewIdOf(i)]
    /\ DOMAIN profiles' = DOMAIN profiles
    /\ \A k \in DOMAIN profiles :
         /\ profiles'[k].uuid = profiles[k].uuid
         /\ profiles'[k].email # profiles[k].email =>
              /\ profiles'[k].email = ""
              /\ \E i \in DOMAIN upc :
                   ~uvalid[i] /\ upc[i] = "invalid" /\ puuids[i] = profiles[k].uuid

\* C30: in the email flow no update and no delete is issued for a row judged
\* valid and the row stays as it was; the write for an identity row judged
\* invalid clears its email and sets its id to the hash of (source, "", name,
\* username); the write for a profile row judged invalid clears its email
\* only and keeps its uuid.
C30_EmailWrites == []EmailWrites /\ [][EmailWriteStep]_vars

\* The identity pool has ended, under a budget above one, with one row judged
\* valid and left alone and another judged invalid and re-keyed
C30_Witness ==
  /\ cpc = "tally" /\ phase = "identities" /\ thrN > 1 /\ updates = 1
  /\ \E i, j \in Units :
       /\ uvalid[i] /\ Returned(i)
       /\ ~uvalid[j] /\ Returned(j) /\ uerr[j] = Nil
       /\ \E r \in RowSet(identities) : r.id = NewIdOf(j) /\ r.email = ""

----------------------------------------------------------------------------
\* The id of a candidate and its merge decision

\* The "complex" line of candidate i, printed before the merge line when the
\* id of the candidate is not its uuid; <<>> when nothing is printed
ComplexLine(i) ==
  LET key == getKey(sources[i], usernames[i], emails[i])
  IN  IF Decision(i) # <<>> /\ ids[i] # uuids[i]
      THEN <<"complex", i, ids[i], uuids[i], idMap[key], uuidMap[key]>>
      ELSE <<>>

\* Candidates i and j agree on source, username, email and uuid
SameButId(i, j) ==
  /\ sources[i] = sources[j] /\ usernames[i] = usernames[j]
  /\ emails[i] = emails[j] /\ uuids[i] = uuids[j]
  /\ ids[i] # ids[j]

\* C31: two candidates with the same source, username, email and uuid but
\* different ids, both past their decision, have issued the same merge calls
\* (none, or the same source and target uuid), whether or not the id equals
\* the uuid; the id only decides whether the "complex" line is printed.
C31_DecisionIgnoresId ==
  (phase = "merge") =>
    \A i, j \in DOMAIN upc :
      (i \in DOMAIN ids /\ j \in DOMAIN ids /\ Decided(i) /\ Decided(j)
       /\ SameButId(i, j))
        => calls[i] = calls[j]

\* Both candidates have decided to merge; one has its uuid as id and prints
\* no "complex" line, the other has an id of its own and prints one
C31_Witness ==
  /\ phase = "merge"
  /\ \E i, j \in DOMAIN ids :
       /\ Decided(i) /\ Decided(j) /\ SameButId(i, j)
       /\ ids[i] = uuids[i] /\ ids[j] # uuids[j]
       /\ calls[i] # <<>> /\ calls[i] = calls[j]
       /\ ComplexLine(i) = <<>> /\ ComplexLine(j) # <<>>

----------------------------------------------------------------------------
\* getKey as a function of (source, username, email)

\* Two texts are the same part of a key: both absent, or equal
SameText(x, y) == (AbsentText(x) /\ AbsentText(y)) \/ x = y

\* C32: an identity gets the key of the indexed identity only if it has the
\* same source, the same username (or both none) and the same email (or both
\* none); an identity with username u and no email never has the key of an
\* identity of the same source with email u and no username (texts that are
\* absent or have a character that is not whitespace).
C32_KeyInjective ==
  (cpc = "done" /\ Len(ids) = 1 /\ DOMAIN idMap # {}
     /\ PlainText(usernames[1]) /\ PlainText(emails[1])) =>
    \A s \in KeySources, u \in KeyUsernames, e \in KeyEmails :
      (PlainText(u) /\ PlainText(e) /\ getKey(s, u, e) = IndexedKey) =>
        /\ s = sources[1]
        /\ SameText(u, usernames[1])
        /\ SameText(e, emails[1])

----------------------------------------------------------------------------
\* The caches under their locks: every "if MT { ...Mtx.RLock() }" and
\* "if MT { ...Mtx.Lock() }" is a step of its own, and the access that
\* follows it releases the lock ("if MT { ...Mtx.RUnlock() }" or Unlock)

\* RLock waits for the writer; Lock waits for the writer and the readers
CanRLock(m) == m.writer = 0
CanWLock(m) == m.writer = 0 /\ m.readers = {}

RLocked(m, i) == [m EXCEPT !.readers = @ \cup {i}]
RUnlocked(m, i) == [m EXCEPT !.readers = @ \ {i}]
WLocked(m, i) == [m EXCEPT !.writer = i]
WUnlocked(m, i) == [m EXCEPT !.writer = IF @ = i THEN 0 ELSE @]

\* Where a unit goes with an invalid email: the identity pool computes the
\* two hashes first, the profile pool issues its update
InvalidNext == IF phase = "identities" THEN "affs1" ELSE "invalid"

\* What the steps of this section leave alone
CacheStepFrame ==
  UNCHANGED <<cpc, envVars, dataVars, indexVars, thrN, MT, poolVars, merges,
              uerr, utmp, attempt, launched, received, tokenVars, tailVars,
              exited, phase, profiles, puuids, pemails, validateDomain,
              tallyVars>>

\* if MT { emailsCacheMtx.RLock() } of isValidEmail and of isValidDomain
EmailsCacheRLock(i) ==
  /\ Running /\ phase # "merge" /\ upc[i] \in {"start", "domain"}
  /\ MT /\ emailsCacheMtx.made
  /\ i \notin emailsCacheMtx.readers /\ CanRLock(emailsCacheMtx)
  /\ emailsCacheMtx' = RLocked(emailsCacheMtx, i)
  /\ CacheStepFrame
  /\ UNCHANGED <<upc, calls, uvalid, emailsCache, uuidsAffsCache, uuidsAffsCacheMtx>>

\* isValidEmail from the cache read to the regex: valid, ok :=
\* emailsCache[email], RUnlock, and on a miss the normalisation and the match
\* (the length tests before the reads, l < 6 && l > 254 and l < 4 && l > 254,
\* hold for no length)
EmailsCacheReadEmail(i) ==
  /\ Running /\ phase # "merge" /\ upc[i] = "start"
  /\ MT => i \in emailsCacheMtx.readers
  /\ emailsCacheMtx' = RUnlocked(emailsCacheMtx, i)
  /\ LET email == EmailOf(i)
     IN IF email \in DOMAIN emailsCache
        THEN /\ uvalid' = [uvalid EXCEPT ![i] = emailsCache[email]]
             /\ upc' = [upc EXCEPT ![i] = IF emailsCache[email] THEN "ret" ELSE InvalidNext]
        ELSE IF ~MatchesEmailRegex(NormalizeEmail(email))
        THEN /\ uvalid' = [uvalid EXCEPT ![i] = FALSE]
             /\ upc' = [upc EXCEPT ![i] = "cacheEmail"]
        ELSE IF validateDomain
        THEN /\ uvalid' = [uvalid EXCEPT ![i] = FALSE]
             /\ upc' = [upc EXCEPT ![i] = "domain"]
        ELSE /\ uvalid' = [uvalid EXCEPT ![i] = TRUE]
             /\ upc' = [upc EXCEPT ![i] = "cacheEmail"]
  /\ CacheStepFrame
  /\ UNCHANGED <<calls, emailsCache, uuidsAffsCache, uuidsAffsCacheMtx>>

\* isValidDomain up to the lookup: valid, ok := emailsCache[domain], RUnlock
EmailsCacheReadDomain(i) ==
  /\ Running /\ phase # "merge" /\ upc[i] = "domain"
  /\ MT => i \in emailsCacheMtx.readers
  /\ emailsCacheMtx' = RUnlocked(emailsCacheMtx, i)
  /\ LET domain == DomainOf(EmailOf(i))
     IN IF domain \in DOMAIN emailsCache
        THEN /\ uvalid' = [uvalid EXCEPT ![i] = emailsCache[domain]]
             /\ upc' = [upc EXCEPT ![i] = "cacheEmail"]
        ELSE /\ upc' = [upc EXCEPT ![i] = "mx"]
             /\ UNCHANGED uvalid
  /\ CacheStepFrame
  /\ UNCHANGED <<calls, emailsCache, uuidsAffsCache, uuidsAffsCacheMtx>>

\* mx, err := net.LookupMX(domain), which sets the result valid of
\* isValidDomain before its deferred store runs
LookupMXCall(i) ==
  /\ Running /\ phase # "merge" /\ upc[i] = "mx"
  /\ \E found \in BOOLEAN :
       /\ uvalid' = [uvalid EXCEPT ![i] = found]
       /\ calls' = [calls EXCEPT ![i] = Append(@, MXCall(found))]
  /\ upc' = [upc EXCEPT ![i] = "cacheDomain"]
  /\ CacheStepFrame
  /\ UNCHANGED <<emailsCache, uuidsAffsCache, cacheMtxVars>>

\* if MT { emailsCacheMtx.Lock() } of the two deferred stores
EmailsCacheLock(i) ==
  /\ Running /\ phase # "merge" /\ upc[i] \in {"cacheDomain", "cacheEmail"}
  /\ MT /\ emailsCacheMtx.made
  /\ emailsCacheMtx.writer # i /\ CanWLock(emailsCacheMtx)
  /\ emailsCacheMtx' = WLocked(emailsCacheMtx, i)
  /\ CacheStepFrame
  /\ UNCHANGED <<upc, calls, uvalid, emailsCache, uuidsAffsCache, uuidsAffsCacheMtx>>

\* Variant: the deferred store of isValidDomain takes no lock
EmailsCacheStoreDomain_NoLock(i) ==
  /\ Running /\ phase # "merge" /\ upc[i] = "cacheDomain"
  /\ emailsCache' = MapPut(emailsCache, DomainOf(EmailOf(i)), uvalid[i])
  /\ emailsCacheMtx' = WUnlocked(emailsCacheMtx, i)
  /\ upc' = [upc EXCEPT ![i] = "cacheEmail"]
  /\ CacheStepFrame
  /\ UNCHANGED <<calls, uvalid, uuidsAffsCache, uuidsAffsCacheMtx>>

\* The deferred emailsCache[domain] = valid of isValidDomain, and Unlock
EmailsCacheStoreDomain(i) ==
  /\ Running /\ phase # "merge" /\ upc[i] = "cacheDomain"
  /\ MT => emailsCacheMtx.writer = i
  /\ emailsCache' = MapPut(emailsCache, DomainOf(EmailOf(i)), uvalid[i])
  /\ emailsCacheMtx' = WUnlocked(emailsCacheMtx, i)
  /\ upc' = [upc EXCEPT ![i] = "cacheEmail"]
  /\ CacheStepFrame
  /\ UNCHANGED <<calls, uvalid, uuidsAffsCache, uuidsAffsCacheMtx>>

\* The deferred emailsCache[email] = valid of isValidEmail (email is by then
\* the normalised text), and Unlock
EmailsCacheStoreEmail(i) ==
  /\ Running /\ phase # "merge" /\ upc[i] = "cacheEmail"
  /\ MT => emailsCacheMtx.writer = i
  /\ emailsCache' = MapPut(emailsCache, NormalizeEmail(EmailOf(i)), uvalid[i])
  /\ emailsCacheMtx' = WUnlocked(emailsCacheMtx, i)
  /\ upc' = [upc EXCEPT ![i] = IF uvalid[i] THEN "ret" ELSE InvalidNext]
  /\ CacheStepFrame
  /\ UNCHANGED <<calls, uvalid, uuidsAffsCache, uuidsAffsCacheMtx>>

\* The key of the uuidAffs call a unit is in: prevUUID := uuidAffs(source,
\* email, name, username), then uuid := uuidAffs(source, "", name, username)
AffsKey(i) ==
  IF upc[i] \in {"affs1", "affs1s"}
  THEN JoinArgs(sources[i], emails[i], names[i], usernames[i])
  ELSE JoinArgs(sources[i], "", names[i], usernames[i])

\* h of the uuidAffs call a unit is in, when the cache has no entry
AffsHash(i) ==
  IF upc[i] \in {"affs1", "affs1s"}
  THEN GenerateIdentity(sources[i], emails[i], names[i], usernames[i])
  ELSE GenerateIdentity(sources[i], "", names[i], usernames[i])

\* if MT { uuidsAffsCacheMtx.RLock() }
UuidsAffsCacheRLock(i) ==
  /\ Running /\ phase = "identities" /\ upc[i] \in {"affs1", "affs2"}
  /\ MT /\ uuidsAffsCacheMtx.made
  /\ i \notin uuidsAffsCacheMtx.readers /\ CanRLock(uuidsAffsCacheMtx)
  /\ uuidsAffsCacheMtx' = RLocked(uuidsAffsCacheMtx, i)
  /\ CacheStepFrame
  /\ UNCHANGED <<upc, calls, uvalid, emailsCache, uuidsAffsCache, emailsCacheMtx>>

\* h, ok := uuidsAffsCache[k], RUnlock, "if ok { return }"
UuidsAffsCacheRead(i) ==
  /\ Running /\ phase = "identities" /\ upc[i] \in {"affs1", "affs2"}
  /\ MT => i \in uuidsAffsCacheMtx.readers
  /\ uuidsAffsCacheMtx' = RUnlocked(uuidsAffsCacheMtx, i)
  /\ upc' = [upc EXCEPT ![i] =
               IF AffsKey(i) \in DOMAIN uuidsAffsCache
               THEN (IF upc[i] = "affs1" THEN "affs2" ELSE "invalid")
               ELSE (IF upc[i] = "affs1" THEN "affs1s" ELSE "affs2s")]
  /\ CacheStepFrame
  /\ UNCHANGED <<calls, uvalid, emailsCache, uuidsAffsCache, emailsCacheMtx>>

\* if MT { uuidsAffsCacheMtx.Lock() } of the deferred store
UuidsAffsCacheLock(i) ==
  /\ Running /\ phase = "identities" /\ upc[i] \in {"affs1s", "affs2s"}
  /\ MT /\ uuidsAffsCacheMtx.made
  /\ uuidsAffsCacheMtx.writer # i /\ CanWLock(uuidsAffsCacheMtx)
  /\ uuidsAffsCacheMtx' = WLocked(uuidsAffsCacheMtx, i)
  /\ CacheStepFrame
  /\ UNCHANGED <<upc, calls, uvalid, emailsCache, uuidsAffsCache, emailsCacheMtx>>

\* GenerateIdentity and the deferred uuidsAffsCache[k] = h, and Unlock
UuidsAffsCacheStore(i) ==
  /\ Running /\ phase = "identities" /\ upc[i] \in {"affs1s", "affs2s"}
  /\ MT => uuidsAffsCacheMtx.writer = i
  /\ uuidsAffsCache' = MapPut(uuidsAffsCache, AffsKey(i), AffsHash(i))
  /\ uuidsAffsCacheMtx' = WUnlocked(uuidsAffsCacheMtx, i)
  /\ upc' = [upc EXCEPT ![i] = IF upc[i] = "affs1s" THEN "affs2" ELSE "invalid"]
  /\ CacheStepFrame
  /\ UNCHANGED <<calls, uvalid, emailsCache, emailsCacheMtx>>

\* cleanupEmails with the cache accesses step by step; at "invalid" the two
\* hashes of an identity are in uuidsAffsCache, where UpdateIdentity finds
\* the values that prevUUID and uuid hold
NextCache ==
  \/ EmailsStart
  \/ PoolStart
  \/ Launch
  \/ LoopEnd
  \/ EmailsProfiles
  \/ EmailsReturn
  \/ \E i \in Units : EmailsCacheRLock(i)
  \/ \E i \in Units : EmailsCacheReadEmail(i)
  \/ \E i \in Units : EmailsCacheReadDomain(i)
  \/ \E i \in Units : LookupMXCall(i)
  \/ \E i \in Units : EmailsCacheLock(i)
  \/ \E i \in Units : EmailsCacheStoreDomain(i)
  \/ \E i \in Units : EmailsCacheStoreEmail(i)
  \/ \E i \in Units : UuidsAffsCacheRLock(i)
  \/ \E i \in Units : UuidsAffsCacheRead(i)
  \/ \E i \in Units : UuidsAffsCacheLock(i)
  \/ \E i \in Units : UuidsAffsCacheStore(i)
  \/ \E i \in Units : UpdateIdentity(i)
  \/ \E i \in Units : DeleteIdentity(i)
  \/ \E i \in Units : UpdateProfile(i)
  \/ \E i \in Units : CountLock(i)
  \/ \E i \in Units : CountStore(i)
  \/ \E i \in Units : Receive(i)

\* A store whose identities all carry the hash of their fields as id
InitCache ==
  /\ InitWrites
  /\ \A k \in DOMAIN identities : identities[k].id # IdOf(k)

SpecCache == InitCache /\ [][NextCache]_vars

\* Unit i takes a step that reads, or that writes, the cache
ReadsEmailsCache(i) == upc[i] \in {"start", "domain"} /\ upc'[i] # upc[i]
WritesEmailsCache(i) == upc[i] \in {"cacheDomain", "cacheEmail"} /\ upc'[i] # upc[i]
ReadsUuidsAffsCache(i) == upc[i] \in {"affs1", "affs2"} /\ upc'[i] # upc[i]
WritesUuidsAffsCache(i) == upc[i] \in {"affs1s", "affs2s"} /\ upc'[i] # upc[i]

\* A writer holds the mutex alone
Exclusive(m) == m.writer # 0 => m.readers = {}

\* No unit other than i is in flight
AloneInFlight(i) == \A j \in Units \ {i} : launched[j] = received[j]

CacheLocksState ==
  (phase # "merge" /\ cpc # "start") =>
    /\ MT <=> thrN > 1
    /\ MT => (emailsCacheMtx.made /\ uuidsAffsCacheMtx.made)
    /\ Exclusive(emailsCacheMtx) /\ Exclusive(uuidsAffsCacheMtx)
    /\ thrN = 1 => InFlight <= 1

CacheAccessStep ==
  (phase # "merge" /\ DOMAIN upc' = DOMAIN upc) =>
    \A i \in DOMAIN upc :
      /\ (thrN > 1 /\ ReadsEmailsCache(i)) => i \in emailsCacheMtx.readers
      /\ (thrN > 1 /\ WritesEmailsCache(i)) => emailsCacheMtx.writer = i
      /\ (thrN > 1 /\ ReadsUuidsAffsCache(i)) => i \in uuidsAffsCacheMtx.readers
      /\ (thrN > 1 /\ WritesUuidsAffsCache(i)) => uuidsAffsCacheMtx.writer = i
      /\ (thrN <= 1 /\ (ReadsEmailsCache(i) \/ WritesEmailsCache(i)
                        \/ ReadsUuidsAffsCache(i) \/ WritesUuidsAffsCache(i)))
           => AloneInFlight(i)

\* C33: with a budget above 1 every step that reads the validity cache or
\* the derived-uuid cache is taken by a unit that holds the read lock of that
\* cache, and every step that writes one by the unit that holds its write
\* lock, which no reader shares; with a budget of 1 the locks are off and a
\* unit that reads or writes a cache is the only unit in flight.
C33_CachesUnderLock == []CacheLocksState /\ [][CacheAccessStep]_vars

\* Budget above 1: a unit holds the write lock of the validity cache for its
\* store while another unit, in flight with it and past its own store of an
\* invalid email, holds the write lock of the derived-uuid cache
C33_Witness ==
  /\ phase = "identities" /\ thrN > 1
  /\ \E i, j \in DOMAIN upc :
       /\ i # j
       /\ launched[i] > received[i] /\ launched[j] > received[j]
       /\ upc[i] = "cacheEmail" /\ emailsCacheMtx.writer = i
       /\ upc[j] = "affs1s" /\ uuidsAffsCacheMtx.writer = j
  /\ DOMAIN emailsCache # {}

----------------------------------------------------------------------------
\* getThreadsNum over every setting of N_CPUS and every machine

\* Rows of the store of these runs
MaxBudgetRows == 2

\* N_CPUS is unset, non-numeric, negative, zero, or positive up to above the
\* CPUs of the largest machine; the machine has 1 to MaxCPU CPUs
InitThreads ==
  /\ identities \in {tab \in Tables : Len(tab) <= MaxBudgetRows}
  /\ envJWT \in {"", "jwt"}
  /\ envNCPUs \in NCPUsEnv /\ numCPU \in 1 .. MaxCPU
  /\ NotStarted

SpecThreads == InitThreads /\ [][Next]_vars

\* thrN := getThreadsNum() has run and cleanupProfiles has not returned
BudgetRead ==
  cpc \in {"scan", "targets", "pool", "loop", "recv", "drain", "tally", "orphan",
           "return"}

\* The positive numbers N_CPUS is set to
PositiveNCPUs == 1 .. MaxCPU + 1

\* The smaller of two numbers
Min(a, b) == IF a < b THEN a ELSE b

\* C34: whatever N_CPUS holds (unset, non-numeric, negative, zero or
\* positive), the budget getThreadsNum returned is at least 1 and at most the
\* number of CPUs: a positive value capped to the number of CPUs, and that
\* number for every other value; so the pool always runs on its channel and
\* no unit is ever run by the sequential branch.
C34_BudgetInRange ==
  (phase = "merge" /\ BudgetRead) =>
    /\ 1 <= thrN /\ thrN <= numCPU
    /\ \A n \in PositiveNCPUs : envNCPUs = ToString(n) => thrN = Min(n, numCPU)
    /\ envNCPUs \notin {ToString(n) : n \in PositiveNCPUs} => thrN = numCPU
    /\ cpc \in {"loop", "recv", "drain"} => ch # Nil
    /\ \A i \in DOMAIN launched : launched[i] > 0 => ch # Nil

\* N_CPUS is set above the CPUs of a two-CPU machine: the budget is 2 and
\* the dispatcher waits on the channel with two units in flight
C34_Witness ==
  /\ phase = "merge" /\ cpc = "recv" /\ Running
  /\ envNCPUs = ToString(MaxCPU + 1) /\ numCPU = 2
  /\ thrN = 2 /\ InFlight = 2 /\ ch # Nil
====
